---- MODULE Spec2Model ----
(***************************************************************************)
(* State-machine model of the RytmAI DAW audio engine                      *)
(* (src/utils/audio-engine.ts) together with the handlers of the DAW       *)
(* component (src/unnamed/part_001) that drive it.                         *)
(*                                                                         *)
(* Time is the audio clock in milliseconds.  Volumes are dB, pans and wet  *)
(* amounts are tenths (the pan 0.1 of the source is written 1).  A null    *)
(* index or time is Null, a null step value is Rest.                       *)
(***************************************************************************)
EXTENDS Integers, Sequences, FiniteSets, TLC

VARIABLES
    layout,               \* the DawLayout object owned by the DAW component
    activePatternIndex,   \* RytmAI_DAW.activePatternIndex
    isPlaying,            \* RytmAI_DAW.isPlaying
    activeStep,           \* RytmAI_DAW.activeStep
    activeBar,            \* RytmAI_DAW.activeBar
    trackLevels,          \* RytmAI_DAW.trackLevels
    edits,                \* number of layout edits made by the user so far
    currentLayout,        \* AudioEngine.currentLayout (a reference, or null)
    currentPatternIndex,  \* AudioEngine.currentPatternIndex
    channels,             \* AudioEngine.channels: volume, pan, mute per track
    bassEffects,          \* AudioEngine.bassEffects: wet and settings
    bassSynth,            \* settings of AudioEngine.instruments.bass
    isInitialized,        \* AudioEngine.isInitialized
    startPc,              \* position of a start() call: "idle" or "awaitInit"
    transport,            \* Tone.Transport: state, pending 'stop' event
    mainLoop,             \* AudioEngine.mainLoop: state, iterations, fired
    uiLoop,               \* AudioEngine.uiLoop: "started" or "stopped"
    passStart,            \* audio time of transport position 0
    passes,               \* number of start() calls that started the transport
    stopTime,             \* audio time of the last stop(), Null once restarted
    stopDelivered,        \* the 'stop' handler has run since the last stop()
    now,                  \* audio clock
    scheduled,            \* instrument events handed to the voices, not yet over
    bassReleases,         \* times of triggerRelease calls on the bass, not yet past
    drawEvents,           \* callbacks handed to Tone.Draw.schedule, not yet run
    drawFired,            \* callbacks run by the latest pass of the draw loop
    lastTick,             \* the latest per-bar tick of the current pass
    render,               \* the renderSong call in progress and its result
    master,               \* AudioEngine.master: volume, compressor, limiter
    instruments,          \* AudioEngine.instruments: the drum samplers
    loads,                \* the loadSample call in flight for each drum track
    init,                 \* audio initializations performed and failed so far
    notification,         \* the last message given to showNotification
    lastUpdate,           \* the latest updateAll call: what it saw and reloaded
    ai,                   \* the AI generation in flight and the busy flags
    isRendering,          \* RytmAI_DAW.isRendering
    exported,             \* the files offered for download, the last encoding
    storage,              \* localStorage under LAYOUT_STORAGE_KEY
    midi                  \* the MIDI input: last message, keys, the bass voice

vars == <<layout, activePatternIndex, isPlaying, activeStep, activeBar,
          trackLevels, edits, currentLayout, currentPatternIndex, channels,
          bassEffects, bassSynth, isInitialized, startPc, transport, mainLoop,
          uiLoop, passStart, passes, stopTime, stopDelivered, now, scheduled,
          bassReleases, drawEvents, drawFired, lastTick, render, master,
          instruments, loads, init, notification, lastUpdate, ai, isRendering,
          exported, storage, midi>>

uiVars == <<activePatternIndex, isPlaying, activeStep, activeBar, trackLevels>>

graphVars == <<channels, bassEffects, bassSynth>>

eventVars == <<scheduled, bassReleases, drawEvents, drawFired>>

assetVars == <<master, instruments, loads, init, notification, lastUpdate>>

sessionVars == <<ai, isRendering, exported, storage, midi>>

(***************************************************************************)
(* Bounds of the model.                                                    *)
(***************************************************************************)
MaxMixerEdits == 1

MaxBarEdits == 2

MaxPasses == 2

MaxLag == 2

MaxRenders == 2

\* Sample selections of the user per drum track.
MaxSampleEdits == 1

\* Audio initializations that fail.
MaxInitFailures == 1

\* AI generations asked for by the user.
MaxAiCalls == 2

MaxStepEdits == 2

MaxReloads == 1

MaxSaves == 1

MaxFrames == 2

MaxPendingNotes == 2

MaxSoundEdits == 2

\* Selections made for a track while an earlier one is loading.
MaxOverlaps == 1

(***************************************************************************)
(* Program constants.                                                      *)
(***************************************************************************)
NumSteps == 16

StepsPerQuarter == 4

TicksPerBar == 768

Null == -1

Rest == "null"

NegInf == "-Infinity"

Tracks == {"kick", "snare", "hihat", "bass", "chords"}

DrumTracks == {"kick", "snare", "hihat"}

MeterNames == Tracks \cup {"master"}

(***************************************************************************)
(* Musical durations at a tempo, as Tone.Time(..).toSeconds() gives them.  *)
(***************************************************************************)
QuarterMs(bpm) == 60000 \div bpm

SixteenthMs(bpm) == QuarterMs(bpm) \div StepsPerQuarter

BarMs(bpm) == QuarterMs(bpm) * 4

(***************************************************************************)
(* The default layout.                                                     *)
(***************************************************************************)
Y == TRUE

O == FALSE

R == Rest

TrackSetting(v, p) == [volume |-> v, pan |-> p, mute |-> FALSE, solo |-> FALSE]

createDefaultEffectsState ==
    [distortion |-> [wet |-> 0, settings |-> "distortion 0.4"],
     delay      |-> [wet |-> 0, settings |-> "8n feedback 0.5"],
     reverb     |-> [wet |-> 0, settings |-> "decay 1.5"]]

createDefaultSynthState ==
    [oscillator     |-> "sawtooth",
     envelope       |-> "0.01 0.2 0.2 0.1",
     filter         |-> "lowpass -12 Q 1",
     filterEnvelope |-> "0.01 0.1 0.1 0.2 base 200 octaves 4"]

Pattern1 ==
    [sequencerState |->
        [kick   |-> <<Y,O,O,O, Y,O,O,O, Y,O,O,O, Y,O,O,O>>,
         snare  |-> <<O,O,O,O, Y,O,O,O, O,O,O,O, Y,O,O,O>>,
         hihat  |-> <<Y,Y,Y,Y, Y,Y,Y,Y, Y,Y,Y,Y, Y,Y,Y,Y>>,
         bass   |-> <<"C3",R,"D#3","F3", R,"D#3",R,R,
                      "G3",R,"A#3","C4", R,"A#3","G3",R>>,
         chords |-> <<"Cm7",R,R,R, "Fm7",R,R,R, "G#maj7",R,R,R, "G7",R,R,R>>],
     trackSettings |->
        [kick   |-> TrackSetting(-3, 0),
         snare  |-> TrackSetting(-3, 0),
         hihat  |-> TrackSetting(-10, 0),
         bass   |-> TrackSetting(-3, 0),
         chords |-> TrackSetting(-9, 0)],
     effectsState |-> createDefaultEffectsState,
     synthState |-> createDefaultSynthState,
     prompts |-> <<100, 0, 0>>]

Pattern2 ==
    [sequencerState |->
        [kick   |-> <<Y,O,Y,O, Y,O,Y,O, Y,O,Y,O, Y,O,Y,O>>,
         snare  |-> <<O,O,O,O, Y,O,O,Y, O,O,O,O, Y,O,O,Y>>,
         hihat  |-> <<O,Y,O,Y, O,Y,O,Y, O,Y,O,Y, O,Y,O,Y>>,
         bass   |-> <<"C3","C3","D#3",R, "F3","F3",R,R,
                      "G3",R,"C4",R, "A#3",R,"G3",R>>,
         chords |-> <<"Cm7",R,"Cm7",R, "Fm7",R,"Fm7",R,
                      "G#maj7",R,"G#maj7",R, "G7",R,"G7",R>>],
     trackSettings |->
        [kick   |-> TrackSetting(0, 0),
         snare  |-> TrackSetting(0, 1),
         hihat  |-> TrackSetting(-8, -2),
         bass   |-> TrackSetting(-2, 0),
         chords |-> TrackSetting(-8, 0)],
     effectsState |->
        [createDefaultEffectsState EXCEPT
            !.distortion = [wet |-> 3, settings |-> "distortion 0.8"]],
     synthState |-> createDefaultSynthState,
     prompts |-> <<100, 0, 50>>]

defaultSampleSettings ==
    [kick |-> "kick.wav", snare |-> "snare.wav", hihat |-> "hihat.wav"]

defaultMasterSettings ==
    [volume |-> 0,
     compressor |-> "threshold -18 ratio 4 attack 0.01 release 0.1",
     limiter |-> [threshold |-> -3]]

DawLayout(patterns, arrangement, bpm) ==
    [patterns |-> patterns, arrangement |-> arrangement, bpm |-> bpm,
     sampleSettings |-> defaultSampleSettings,
     masterSettings |-> defaultMasterSettings,
     activePatternIndex |-> 0,
     timelineScrollPosition |-> 0]

\* buildDefaultLayout, with the arrangement cut to its first bar.
buildDefaultLayout == DawLayout(<<Pattern1, Pattern2>>, <<0>>, 120)

(***************************************************************************)
(* Inputs of the model: the layouts the loader hands to the component and  *)
(* the values the user gives to the mixer controls.                        *)
(***************************************************************************)
EditTracks == {"kick"}

BpmValues == {60, 100, 120}

MixerValues(property) ==
    CASE property = "volume" -> {-10, 0}
      [] property = "pan"    -> {-2, 0}
      [] property = "mute"   -> BOOLEAN
      [] property = "solo"   -> BOOLEAN

MixerProperties == {"volume", "pan", "mute", "solo"}

MeterReadings ==
    {[m \in MeterNames |-> NegInf],
     [m \in MeterNames |-> "-12"],
     [m \in MeterNames |-> IF m \in {"kick", "master"} THEN "-6" ELSE NegInf]}

(***************************************************************************)
(* Accessors.  Arrangement and pattern indices are 0-based as in the       *)
(* source; sequences in this module are 1-based.                           *)
(***************************************************************************)
ArrLen(lay) == Len(lay.arrangement)

BarEntry(lay, barIndex) == lay.arrangement[barIndex + 1]

PatternAt(lay, patternIndex) == lay.patterns[patternIndex + 1]

StepAt(pattern, track, i) == pattern.sequencerState[track][i + 1]

(***************************************************************************)
(* AudioEngine.updateMixerSettings: the channel parameters that result     *)
(* from a pattern's track settings.                                        *)
(***************************************************************************)
soloedTracks(settings) == {key \in DOMAIN settings : settings[key].solo}

updateMixerSettings_ignoreSolo(settings) ==
    [key \in DOMAIN settings |->
        [pan    |-> settings[key].pan,
         volume |-> settings[key].volume,
         mute   |-> settings[key].mute]]

updateMixerSettings(settings) ==
    [key \in DOMAIN settings |->
        [pan    |-> settings[key].pan,
         volume |-> settings[key].volume,
         mute   |-> IF Cardinality(soloedTracks(settings)) > 0
                    THEN ~settings[key].solo
                    ELSE settings[key].mute]]

(***************************************************************************)
(* AudioEngine.schedulePattern: the events of one bar.  An instrument      *)
(* event is a trigger on a voice at an audio time; dur is 0 for a bare     *)
(* attack.  A draw event is an onStepChange callback given to Tone.Draw.   *)
(***************************************************************************)
Attack(inst, stepTime) ==
    [inst |-> inst, action |-> "attack", note |-> "C1", dur |-> 0,
     time |-> stepTime]

AttackRelease(inst, note, dur, stepTime) ==
    [inst |-> inst, action |-> "attackRelease", note |-> note, dur |-> dur,
     time |-> stepTime]

\* A step of a track sounds: a drum step is on, a note step is not a rest.
StepPresent(pattern, track, i) ==
    IF track \in DrumTracks
    THEN StepAt(pattern, track, i)
    ELSE StepAt(pattern, track, i) # Rest

StepVoices_shortChord(pattern, i, stepTime, bpm) ==
    {Attack(d, stepTime) : d \in {d \in DrumTracks : StepAt(pattern, d, i)}}
    \cup (IF StepAt(pattern, "bass", i) # Rest
          THEN {AttackRelease("bass", StepAt(pattern, "bass", i),
                              SixteenthMs(bpm), stepTime)}
          ELSE {})
    \cup (IF StepAt(pattern, "chords", i) # Rest
          THEN {AttackRelease("chords", StepAt(pattern, "chords", i),
                              SixteenthMs(bpm), stepTime)}
          ELSE {})

StepVoices(pattern, i, stepTime, bpm) ==
    {Attack(d, stepTime) : d \in {d \in DrumTracks : StepAt(pattern, d, i)}}
    \cup (IF StepAt(pattern, "bass", i) # Rest
          THEN {AttackRelease("bass", StepAt(pattern, "bass", i),
                              SixteenthMs(bpm), stepTime)}
          ELSE {})
    \cup (IF StepAt(pattern, "chords", i) # Rest
          THEN {AttackRelease("chords", StepAt(pattern, "chords", i),
                              QuarterMs(bpm), stepTime)}
          ELSE {})

RECURSIVE scheduleFrom(_, _, _, _, _)
scheduleFrom(i, pattern, time, barIndex, bpm) ==
    IF i < NumSteps
    THEN LET stepTime == time + i * SixteenthMs(bpm)
             rest == scheduleFrom(i + 1, pattern, time, barIndex, bpm)
         IN [voices |-> StepVoices(pattern, i, stepTime, bpm) \cup rest.voices,
             draws  |-> {[time |-> stepTime, step |-> i, bar |-> barIndex]}
                        \cup rest.draws]
    ELSE [voices |-> {}, draws |-> {}]

schedulePattern(pattern, time, barIndex, bpm) ==
    scheduleFrom(0, pattern, time, barIndex, bpm)

(***************************************************************************)
(* Tone.Loop.progress as read inside the loop's callback: the fraction of  *)
(* the loop interval (one measure) elapsed since the iteration began, in   *)
(* transport ticks.  lag is the number of ticks by which the transport is  *)
(* ahead of the iteration's start when the callback runs.                  *)
(***************************************************************************)
LoopProgressTicks(lag) == lag % TicksPerBar

\* A bar index rounded up instead of down.
tickBarIndex_roundsUp(progressTicks, lay) ==
    (progressTicks * ArrLen(lay) + TicksPerBar - 1) \div TicksPerBar

tickBarIndex(progressTicks, lay) ==
    (progressTicks * ArrLen(lay)) \div TicksPerBar

(***************************************************************************)
(* Number of callbacks a Tone.Loop makes once started with the given       *)
(* iteration count.                                                        *)
(***************************************************************************)
LoopFires(iterations) == IF iterations > 1 THEN iterations ELSE 1

startIterations_oneMore(lay) == ArrLen(lay) + 1

startIterations(lay) == ArrLen(lay)

(***************************************************************************)
(* AudioEngine.renderSong: the offline graph and the bar loop.             *)
(***************************************************************************)
offlineGraph ==
    [channels    |-> [key \in Tracks |-> [pan |-> 0, volume |-> 0, mute |-> FALSE]],
     bassEffects |-> "Tone defaults",
     bassSynth   |-> "Tone defaults",
     events      |-> {},
     mixerLog    |-> <<>>]

renderMixerBlock(settings) ==
    LET soloed == {k \in DOMAIN settings : settings[k].solo}
    IN [key \in DOMAIN settings |->
           [pan    |-> settings[key].pan,
            volume |-> settings[key].volume,
            mute   |-> IF Cardinality(soloed) > 0
                       THEN ~settings[key].solo
                       ELSE settings[key].mute]]

renderStepVoices(pattern, i, stepTime, bpm) ==
    (IF StepAt(pattern, "kick", i) THEN {Attack("kick", stepTime)} ELSE {})
    \cup (IF StepAt(pattern, "snare", i) THEN {Attack("snare", stepTime)} ELSE {})
    \cup (IF StepAt(pattern, "hihat", i) THEN {Attack("hihat", stepTime)} ELSE {})
    \cup (IF StepAt(pattern, "bass", i) # Rest
          THEN {AttackRelease("bass", StepAt(pattern, "bass", i),
                              SixteenthMs(bpm), stepTime)}
          ELSE {})
    \cup (IF StepAt(pattern, "chords", i) # Rest
          THEN {AttackRelease("chords", StepAt(pattern, "chords", i),
                              QuarterMs(bpm), stepTime)}
          ELSE {})

renderBarVoices(pattern, time, bpm) ==
    UNION {renderStepVoices(pattern, i, time + i * SixteenthMs(bpm), bpm) :
              i \in 0..(NumSteps - 1)}

RECURSIVE renderBars(_, _, _, _, _)
renderBars(barIndex, lay, barDuration, bpm, g) ==
    IF barIndex < ArrLen(lay)
    THEN LET patternIndex == BarEntry(lay, barIndex)
             pattern == PatternAt(lay, patternIndex)
             time == barIndex * barDuration
             skipped == [g EXCEPT !.mixerLog =
                            Append(@, [applied |-> FALSE, channels |-> g.channels])]
             applied ==
                 [channels    |-> renderMixerBlock(pattern.trackSettings),
                  bassEffects |-> pattern.effectsState,
                  bassSynth   |-> pattern.synthState,
                  events      |-> g.events \cup renderBarVoices(pattern, time, bpm),
                  mixerLog    |->
                      Append(g.mixerLog,
                             [applied |-> TRUE,
                              channels |-> renderMixerBlock(pattern.trackSettings)])]
         IN IF patternIndex = Null
            THEN renderBars(barIndex + 1, lay, barDuration, bpm, skipped)
            ELSE renderBars(barIndex + 1, lay, barDuration, bpm, applied)
    ELSE g

noRender == [done |-> FALSE, totalDuration |-> 0, events |-> {}]

renderIdle ==
    [pc |-> "idle", barDuration |-> 0, totalDuration |-> 0, bpm |-> 0,
     graph |-> offlineGraph, runs |-> 0, prev |-> noRender]

(***************************************************************************)
(* Initial state: the engine as its constructor leaves it, the component   *)
(* holding a layout but not yet connected.                                 *)
(***************************************************************************)
constructorChannels ==
    [key \in Tracks |->
        [pan |-> 0, mute |-> FALSE,
         volume |-> CASE key = "hihat"  -> -10
                      [] key = "chords" -> -9
                      [] OTHER          -> -3]]

constructorBassEffects ==
    [distortion |-> [wet |-> 10, settings |-> "distortion 0"],
     delay      |-> [wet |-> 10, settings |-> "8n feedback 0.5"],
     reverb     |-> [wet |-> 10, settings |-> "decay 1.5"]]

constructorBassSynth ==
    [oscillator     |-> "sawtooth",
     envelope       |-> "0.01 0.2 0.2 0.1",
     filter         |-> "Tone default",
     filterEnvelope |-> "0.01 0.1 0.1 0.2 base 200 octaves 4"]

noTick ==
    [n |-> -1, time |-> 0, barIndex |-> 0, patternIndex |-> Null,
     loaded |-> FALSE]

silentLevels == [m \in MeterNames |-> NegInf]

constructorMaster ==
    [volume |-> 0, compressor |-> "threshold -18 ratio 4", limiter |-> -6]

createSampler(url) == [url |-> url, status |-> "loading"]

constructorInstruments ==
    [kick  |-> createSampler("kick.wav"),
     snare |-> createSampler("snare.wav"),
     hihat |-> createSampler("hihat.wav")]

noLoad ==
    [pc |-> "none", url |-> "", by |-> "", old |-> createSampler(""), n |-> 0,
     second |-> [pc |-> "none", url |-> "", n |-> 0]]

\* No AI generation is in flight; no file has been offered; localStorage
\* has no item under the key.
noGeneration ==
    [pc |-> "idle", isAiThinking |-> FALSE, isGenerating |-> FALSE,
     generatedSamples |-> 0, calls |-> 0, answer |-> [type |-> "null"],
     overlap |-> "idle"]

noBuffer ==
    [length |-> 0, numberOfChannels |-> 0, sampleRate |-> 0,
     channelData |-> <<>>]

noExport == [files |-> 0, wav |-> <<>>, buffer |-> noBuffer]

(***************************************************************************)
(* localStorage and the loader of main().  The values of JavaScript are    *)
(* tagged with their type where the code tests it.  The item under the key *)
(* is absent, a text JSON.parse rejects, or the text of a JSON value; the  *)
(* text of a value is kept as the value it denotes, a layout with its      *)
(* pattern list tagged as an array.                                        *)
(***************************************************************************)
JsNull == [type |-> "null"]

JsObject(fields) == [type |-> "object", value |-> fields]

JsArray(entries) == [type |-> "array", value |-> entries]

JsString(text) == [type |-> "string", value |-> text]

Truthy(v) ==
    /\ v.type # "null"
    /\ ~(v.type = "string" /\ v.value = "")

NoItem == [kind |-> "none"]

Unparseable == [kind |-> "text"]

JsonText(value) == [kind |-> "json", value |-> value]

JSONstringify(lay) ==
    JsonText(JsObject([lay EXCEPT !.patterns = JsArray(@)]))

\* JSON.parse: the value of the text, or a SyntaxError.
JSONparse(item) ==
    IF item.kind = "json" THEN [threw |-> FALSE, value |-> item.value]
    ELSE [threw |-> TRUE, value |-> JsNull]

Backfill_overwrites(object, defaults) ==
    [f \in DOMAIN object \cup DOMAIN defaults |->
        IF f \in DOMAIN defaults THEN defaults[f] ELSE object[f]]

\* `if (!object.field) object.field = ...` for each field of defaults.
Backfill(object, defaults) ==
    [f \in DOMAIN object \cup DOMAIN defaults |->
        IF f \in DOMAIN object THEN object[f] ELSE defaults[f]]

emptyChordsTrack_short == [i \in 1..15 |-> Rest]

\* new Array(16).fill(null)
emptyChordsTrack == [i \in 1..16 |-> Rest]

backfillPattern(pattern) ==
    LET sequencerState ==
            IF "sequencerState" \in DOMAIN pattern
            THEN Backfill(pattern.sequencerState,
                          [chords |-> emptyChordsTrack])
            ELSE buildDefaultLayout.patterns[1].sequencerState
        trackSettings ==
            IF "trackSettings" \in DOMAIN pattern
            THEN Backfill(pattern.trackSettings,
                          [chords |-> TrackSetting(-9, 0)])
            ELSE buildDefaultLayout.patterns[1].trackSettings
    IN  Backfill([f \in DOMAIN pattern \ {"sequencerState", "trackSettings"}
                    |-> pattern[f]],
                 [effectsState   |-> createDefaultEffectsState,
                  sequencerState |-> sequencerState,
                  trackSettings  |-> trackSettings,
                  synthState     |-> createDefaultSynthState])

backfillLayout_resetsView(savedLayout) ==
    Backfill([f \in DOMAIN savedLayout \
                     {"activePatternIndex", "timelineScrollPosition"} |->
                 IF f = "patterns"
                 THEN [i \in DOMAIN savedLayout.patterns |->
                          backfillPattern(savedLayout.patterns[i])]
                 ELSE savedLayout[f]],
             [sampleSettings         |-> defaultSampleSettings,
              masterSettings         |-> buildDefaultLayout.masterSettings,
              activePatternIndex     |-> 0,
              timelineScrollPosition |-> 0])

\* The body of the try block for a saved layout that passed the test.
backfillLayout(savedLayout) ==
    Backfill([savedLayout EXCEPT
                 !.patterns = [i \in DOMAIN @ |-> backfillPattern(@[i])]],
             [sampleSettings         |-> defaultSampleSettings,
              masterSettings         |-> buildDefaultLayout.masterSettings,
              activePatternIndex     |-> 0,
              timelineScrollPosition |-> 0])

\* The layout returned and the item left under the key.
loadOrDefaultLayout(item) ==
    LET parsed      == JSONparse(item)
        savedLayout == parsed.value
        usable ==
            /\ ~parsed.threw
            /\ Truthy(savedLayout)
            /\ savedLayout.type = "object"
            /\ "patterns" \in DOMAIN savedLayout.value
            /\ Truthy(savedLayout.value.patterns)
            /\ savedLayout.value.patterns.type = "array"
        patterns == savedLayout.value.patterns.value
        \* reading a field of a null pattern throws inside forEach
        threw ==
            \/ parsed.threw
            \/ usable /\ \E i \in DOMAIN patterns : patterns[i] = JsNull
    IN  IF item.kind = "none"
        THEN [layout |-> buildDefaultLayout, item |-> item]
        ELSE IF threw
        THEN [layout |-> buildDefaultLayout, item |-> NoItem]
        ELSE IF usable
        THEN [layout |->
                 backfillLayout([savedLayout.value EXCEPT
                                    !.patterns = patterns]),
              item |-> item]
        ELSE [layout |-> buildDefaultLayout, item |-> item]

\* No MIDI message has arrived, no key is down, no midiNoteOn awaits the
\* engine, and the bass voice has not been attacked.
noMidi ==
    [message |-> <<0, 0, 0>>,
     last    |-> [type |-> "none"],
     held    |-> {},
     pending |-> <<>>,
     voice   |-> [state |-> "released", note |-> [pitch |-> "", octave |-> 0],
                  velocity |-> 0]]

noUpdate ==
    [n |-> 0, before |-> [t \in DrumTracks |-> ""],
     samples |-> [t \in DrumTracks |-> ""], reloaded |-> {}]

\* The state of a fresh page: component, engine and clock as constructed.
freshPage ==
    /\ activePatternIndex = 0
    /\ isPlaying = FALSE
    /\ activeStep = -1
    /\ activeBar = -1
    /\ trackLevels = silentLevels
    /\ edits = 0
    /\ currentLayout = Null
    /\ currentPatternIndex = Null
    /\ channels = constructorChannels
    /\ bassEffects = constructorBassEffects
    /\ bassSynth = constructorBassSynth
    /\ isInitialized = FALSE
    /\ startPc = "idle"
    /\ transport = [state |-> "stopped", stopPending |-> FALSE, bpm |-> 120]
    /\ mainLoop = [state |-> "stopped", iterations |-> 0, fired |-> 0]
    /\ uiLoop = "stopped"
    /\ passStart = 0
    /\ passes = 0
    /\ stopTime = Null
    /\ stopDelivered = FALSE
    /\ now = 0
    /\ scheduled = {}
    /\ bassReleases = {}
    /\ drawEvents = {}
    /\ drawFired = {}
    /\ lastTick = noTick
    /\ render = renderIdle
    /\ master = constructorMaster
    /\ instruments = constructorInstruments
    /\ loads = [t \in DrumTracks |-> noLoad]
    /\ init = [calls |-> 0, done |-> 0, failed |-> 0, startFailed |-> 0,
               midi |-> "idle", again |-> "idle"]
    /\ notification = "none"
    /\ lastUpdate = noUpdate
    /\ ai = noGeneration
    /\ isRendering = FALSE
    /\ exported = noExport
    /\ midi = noMidi

\* main(): the layout is loaded from localStorage and handed to a new
\* component.  storage.read is the item the loader was given.
main(item) ==
    LET loaded == loadOrDefaultLayout(item)
    IN  /\ layout = loaded.layout
        /\ storage = [item |-> loaded.item, read |-> item, reloads |-> 0,
                      saves |-> 0]
        /\ freshPage

(***************************************************************************)
(* The layouts the loader can hand to the component: the default patterns  *)
(* or patterns saved with a mix of muted and soloed tracks, under short    *)
(* arrangements.                                                           *)
(***************************************************************************)
SavedPattern1 ==
    [Pattern1 EXCEPT !.trackSettings.snare.mute = TRUE,
                     !.trackSettings.hihat.solo = TRUE]

SavedPattern2 ==
    [Pattern2 EXCEPT !.trackSettings.bass.mute = TRUE]

InitLayouts ==
    {DawLayout(<<Pattern1, Pattern2>>, <<1, Null, 0>>, 120),
     DawLayout(<<SavedPattern1, SavedPattern2>>, <<0, 1>>, 60),
     DawLayout(<<Pattern1, Pattern2>>, <<0>>, 120)}

\* What a layout leaves under the key when it is saved; nothing is stored
\* for the default layout.
storedLayout(lay) ==
    IF lay = buildDefaultLayout THEN NoItem ELSE JSONstringify(lay)

InitWith(layouts) == \E lay \in layouts : main(storedLayout(lay))

Init == InitWith(InitLayouts)

(***************************************************************************)
(* The items main() can find under the key: none, a text that is not JSON, *)
(* JSON values that are not layouts, layouts without usable patterns,      *)
(* layouts saved by this version, and layouts of older versions whose      *)
(* patterns lack the fields added since.                                   *)
(***************************************************************************)
Without(object, fields) == [f \in DOMAIN object \ fields |-> object[f]]

OldPattern(pattern) ==
    [sequencerState |-> Without(pattern.sequencerState, {"chords"}),
     trackSettings  |-> Without(pattern.trackSettings, {"chords"}),
     prompts        |-> pattern.prompts]

BarePattern(pattern) == [prompts |-> pattern.prompts]

OldLayout(patterns) ==
    JsObject([patterns |-> JsArray(patterns), arrangement |-> <<0, 1>>,
              bpm |-> 100])

SavedLayout ==
    [DawLayout(<<SavedPattern1, SavedPattern2>>, <<0, 1>>, 60) EXCEPT
        !.activePatternIndex = 1, !.timelineScrollPosition = 240]

CorruptItems ==
    {Unparseable,
     JsonText(JsNull),
     JsonText(JsString("layout")),
     JsonText(JsObject([arrangement |-> <<0>>, bpm |-> 120])),
     JsonText(JsObject([patterns |-> JsNull, arrangement |-> <<0>>,
                        bpm |-> 120])),
     JsonText(JsObject([patterns |-> JsString("none"), arrangement |-> <<0>>,
                        bpm |-> 120])),
     JsonText(JsObject([patterns |-> JsArray(<<>>), arrangement |-> <<0>>,
                        bpm |-> 120])),
     JsonText(JsObject([patterns |-> JsArray(<<JsNull>>),
                        arrangement |-> <<0>>, bpm |-> 120]))}

LayoutItems ==
    {JSONstringify(SavedLayout),
     JSONstringify(DawLayout(<<Pattern1, Pattern2>>, <<1, Null, 0>>, 120)),
     JsonText(OldLayout(<<OldPattern(Pattern1), OldPattern(Pattern2)>>)),
     JsonText(OldLayout(<<BarePattern(Pattern1), Pattern2>>)),
     JsonText(OldLayout(<<Without(Pattern1, {"effectsState"}),
                          Without(Pattern2, {"synthState"})>>))}

StoredItems == {NoItem} \cup CorruptItems \cup LayoutItems

InitStored == \E item \in StoredItems : main(item)

ClockLayouts == {lay \in InitLayouts : ArrLen(lay) = 1}

InitClock == InitWith(ClockLayouts)

(***************************************************************************)
(* AudioEngine.updateAll.  The engine keeps a reference to the layout      *)
(* object, so later edits of the layout are visible to it.                 *)
(***************************************************************************)
LayoutRef == 0

updateMasterSettings(settings) ==
    [volume |-> settings.volume, compressor |-> settings.compressor,
     limiter |-> settings.limiter.threshold]

\* The object currentLayout refers to when updateAll(lay) is called again:
\* the component has one layout object, which it edits in place.
oldLayout(lay) == lay

changedSamples(lay) ==
    {track \in DrumTracks :
        \/ currentLayout = Null
        \/ oldLayout(lay).sampleSettings[track] # lay.sampleSettings[track]}

\* A loadSample call up to the point where it first has to wait.
loadSampleCall(track, url, by) ==
    [pc |-> IF isInitialized THEN "awaitLoaded" ELSE "awaitInit",
     url |-> url, by |-> by, old |-> instruments[track],
     n |-> loads[track].n, second |-> loads[track].second]

updateAll(lay) ==
    /\ currentLayout' = LayoutRef
    /\ transport' = [transport EXCEPT !.bpm = lay.bpm]
    /\ master' = updateMasterSettings(lay.masterSettings)
    /\ loads' = [t \in DrumTracks |->
                    IF t \in changedSamples(lay)
                    THEN loadSampleCall(t, lay.sampleSettings[t], "engine")
                    ELSE loads[t]]
    /\ instruments' = [t \in DrumTracks |->
                          IF t \in changedSamples(lay) /\ isInitialized
                          THEN createSampler(lay.sampleSettings[t])
                          ELSE instruments[t]]
    /\ init' = [init EXCEPT !.calls =
                    @ + (IF isInitialized THEN 0
                         ELSE Cardinality(changedSamples(lay)))]
    /\ lastUpdate' = [n |-> lastUpdate.n + 1, before |-> lastUpdate.samples,
                      samples |-> lay.sampleSettings,
                      reloaded |-> changedSamples(lay)]

ConnectedCallback ==
    /\ currentLayout = Null
    /\ updateAll(layout)
    /\ activePatternIndex' =
           IF "activePatternIndex" \in DOMAIN layout
           THEN layout.activePatternIndex
           ELSE activePatternIndex
    /\ UNCHANGED <<layout, isPlaying, activeStep, activeBar, trackLevels,
                   edits, currentPatternIndex, graphVars, isInitialized,
                   startPc, mainLoop, uiLoop, passStart, passes, stopTime,
                   stopDelivered, now, eventVars, lastTick, render,
                   notification, sessionVars>>

(***************************************************************************)
(* AudioEngine.start after initialize() has resolved, and AudioEngine.stop.*)
(***************************************************************************)
startBody ==
    IF currentLayout = Null
    THEN UNCHANGED <<transport, mainLoop, uiLoop, passStart, passes, stopTime,
                     stopDelivered, lastTick>>
    ELSE /\ mainLoop' = [state |-> "started",
                         iterations |-> startIterations(layout),
                         fired |-> 0]
         /\ transport' = [transport EXCEPT !.state = "started"]
         /\ uiLoop' = "started"
         /\ passStart' = now
         /\ passes' = passes + 1
         /\ stopTime' = Null
         /\ stopDelivered' = FALSE
         /\ lastTick' = noTick

stop ==
    /\ transport' = [transport EXCEPT !.state = "stopped", !.stopPending = TRUE]
    /\ mainLoop' = [mainLoop EXCEPT !.state = "stopped"]
    /\ uiLoop' = "stopped"
    /\ stopTime' = now
    /\ stopDelivered' = FALSE
    /\ UNCHANGED <<passStart, passes, lastTick>>

(***************************************************************************)
(* RytmAI_DAW.togglePlay.  A start() whose initialize() has to wait for    *)
(* the audio context is resumed by InitializeDone.  The button exists once *)
(* the component is connected, and two presses of it are never at the same *)
(* instant of the audio clock.                                             *)
(***************************************************************************)
TogglePlay ==
    /\ currentLayout # Null
    /\ startPc = "idle"
    /\ IF isPlaying
       THEN /\ stop
            /\ isPlaying' = FALSE
            /\ activeStep' = -1
            /\ activeBar' = -1
            /\ UNCHANGED <<isInitialized, startPc, init>>
       ELSE /\ passes < MaxPasses
            /\ stopTime = Null \/ now > stopTime
            /\ IF isInitialized
               THEN /\ startBody
                    /\ isPlaying' = TRUE
                    /\ UNCHANGED <<isInitialized, startPc, init>>
               ELSE /\ startPc' = "awaitInit"
                    /\ init' = [init EXCEPT !.calls = @ + 1]
                    /\ UNCHANGED <<isPlaying, isInitialized, transport, mainLoop,
                                   uiLoop, passStart, passes, stopTime,
                                   stopDelivered, lastTick>>
            /\ UNCHANGED <<activeStep, activeBar>>
    /\ UNCHANGED <<layout, activePatternIndex, trackLevels, edits, currentLayout,
                   currentPatternIndex, graphVars, now, eventVars, render,
                   master, instruments, loads, notification, lastUpdate,
                   sessionVars>>

\* Tone.loaded() has resolved: the buffers that were loading are loaded.
ToneLoaded(ins) ==
    [t \in DOMAIN ins |->
        [ins[t] EXCEPT !.status = IF @ = "loading" THEN "loaded" ELSE @]]

InitializeDone ==
    /\ startPc = "awaitInit"
    /\ isInitialized' = TRUE
    /\ instruments' = ToneLoaded(instruments)
    /\ startPc' = "idle"
    /\ startBody
    /\ isPlaying' = TRUE
    /\ init' = [init EXCEPT !.done = @ + 1]
    /\ UNCHANGED <<layout, activePatternIndex, activeStep, activeBar, trackLevels,
                   edits, currentLayout, currentPatternIndex, graphVars, now,
                   eventVars, render, master, loads, notification, lastUpdate,
                   sessionVars>>

\* Tone.start() or Tone.loaded() rejects: initialize() throws, start() throws
\* before its body and togglePlay before it sets isPlaying.
InitializeFail_startsAnyway ==
    /\ startPc = "awaitInit"
    /\ init.failed < MaxInitFailures
    /\ startPc' = "idle"
    /\ init' = [init EXCEPT !.failed = @ + 1, !.startFailed = @ + 1]
    /\ startBody
    /\ UNCHANGED <<layout, uiVars, edits, currentLayout, currentPatternIndex,
                   graphVars, isInitialized, now, eventVars, render, master,
                   instruments, loads, notification, lastUpdate, sessionVars>>

InitializeFail ==
    /\ startPc = "awaitInit"
    /\ init.failed < MaxInitFailures
    /\ startPc' = "idle"
    /\ init' = [init EXCEPT !.failed = @ + 1, !.startFailed = @ + 1]
    /\ UNCHANGED <<layout, uiVars, edits, currentLayout, currentPatternIndex,
                   graphVars, isInitialized, transport, mainLoop, uiLoop,
                   passStart, passes, stopTime, stopDelivered, now, eventVars,
                   lastTick, render, master, instruments, loads, notification,
                   lastUpdate, sessionVars>>

(***************************************************************************)
(* A press of the play button while the start() of an earlier press still  *)
(* awaits initialize(): isPlaying is still false, so togglePlay calls      *)
(* start() again.  The second start() resumes on its own: its awaits are   *)
(* settled by the audio context and the sample loader in later tasks.      *)
(***************************************************************************)
TogglePlayAgain ==
    /\ currentLayout # Null
    /\ startPc = "awaitInit"
    /\ ~isPlaying
    /\ ~isInitialized
    /\ init.again = "idle"
    /\ passes + 1 < MaxPasses
    /\ init' = [init EXCEPT !.calls = @ + 1, !.again = "awaitInit"]
    /\ UNCHANGED <<layout, uiVars, edits, currentLayout, currentPatternIndex,
                   graphVars, isInitialized, startPc, transport, mainLoop,
                   uiLoop, passStart, passes, stopTime, stopDelivered, now,
                   eventVars, lastTick, render, master, instruments, loads,
                   notification, lastUpdate, sessionVars>>

StartAgainDone ==
    /\ init.again = "awaitInit"
    /\ isInitialized' = TRUE
    /\ instruments' = ToneLoaded(instruments)
    /\ init' = [init EXCEPT !.done = @ + 1, !.again = "idle"]
    /\ startBody
    /\ isPlaying' = TRUE
    /\ UNCHANGED <<layout, activePatternIndex, activeStep, activeBar, trackLevels,
                   edits, currentLayout, currentPatternIndex, graphVars,
                   startPc, now, eventVars, render, master, loads,
                   notification, lastUpdate, sessionVars>>

(***************************************************************************)
(* The handler of the Transport's 'stop' event (constructor).  The event   *)
(* is emitted by the transport clock after stop() has returned.            *)
(***************************************************************************)
StopEvent ==
    /\ transport.stopPending
    /\ transport' = [transport EXCEPT !.stopPending = FALSE]
    /\ activeStep' = -1
    /\ activeBar' = -1
    /\ currentPatternIndex' = Null
    /\ trackLevels' = silentLevels
    /\ stopDelivered' = TRUE
    /\ UNCHANGED <<layout, activePatternIndex, isPlaying, edits, currentLayout,
                   graphVars, isInitialized, startPc, mainLoop, uiLoop, passStart,
                   passes, stopTime, now, eventVars, lastTick, render,
                   assetVars,
                   sessionVars>>

(***************************************************************************)
(* AudioEngine.tick, the callback of mainLoop, with AudioEngine.loadPattern*)
(* and AudioEngine.schedulePattern.                                        *)
(***************************************************************************)
TickDue ==
    /\ transport.state = "started"
    /\ mainLoop.state = "started"
    /\ mainLoop.fired < LoopFires(mainLoop.iterations)
    /\ now = passStart + mainLoop.fired * BarMs(transport.bpm)

needsLoad_always(patternIndex, current) == TRUE

needsLoad(patternIndex, current) == patternIndex # current

\* Tone's set(): the parameters named by the settings are set, the others
\* keep their values.
ToneSet(node, settings) ==
    [p \in DOMAIN node |-> IF p \in DOMAIN settings THEN settings[p] ELSE node[p]]

setBassSynth(settings) == ToneSet(bassSynth, settings)

updateBassEffects(effectsState) ==
    [e \in DOMAIN effectsState |->
        [wet |-> effectsState[e].wet, settings |-> effectsState[e].settings]]

loadPattern(pattern) ==
    /\ channels' = updateMixerSettings(pattern.trackSettings)
    /\ bassEffects' = updateBassEffects(pattern.effectsState)
    /\ bassSynth' = setBassSynth(pattern.synthState)

TickEntry(time, barIndex, patternIndex, loaded) ==
    [n |-> mainLoop.fired, time |-> time, barIndex |-> barIndex,
     patternIndex |-> patternIndex, loaded |-> loaded]

tickEmptyBar_forgetPattern(time) ==
    /\ bassReleases' = bassReleases \cup {time}
    /\ currentPatternIndex' = Null
    /\ UNCHANGED <<graphVars, scheduled, drawEvents>>

tickEmptyBar(time) ==
    /\ bassReleases' = bassReleases \cup {time}
    /\ UNCHANGED <<currentPatternIndex, graphVars, scheduled, drawEvents>>

tick(time, lag) ==
    IF currentLayout = Null
    THEN UNCHANGED <<currentPatternIndex, graphVars, scheduled, bassReleases,
                     drawEvents, lastTick>>
    ELSE LET barIndex == tickBarIndex(LoopProgressTicks(lag), layout)
             patternIndex == BarEntry(layout, barIndex)
             pattern == PatternAt(layout, patternIndex)
             events == schedulePattern(pattern, time, barIndex, transport.bpm)
         IN IF patternIndex = Null
            THEN /\ tickEmptyBar(time)
                 /\ lastTick' = TickEntry(time, barIndex, patternIndex, FALSE)
            ELSE /\ IF needsLoad(patternIndex, currentPatternIndex)
                    THEN /\ loadPattern(pattern)
                         /\ currentPatternIndex' = patternIndex
                    ELSE UNCHANGED <<currentPatternIndex, graphVars>>
                 /\ scheduled' = scheduled \cup events.voices
                 /\ drawEvents' = drawEvents \cup
                        {[time |-> d.time, step |-> d.step, bar |-> d.bar,
                          pass |-> passes] : d \in events.draws}
                 /\ lastTick' = TickEntry(time, barIndex, patternIndex,
                                  needsLoad(patternIndex, currentPatternIndex))
                 /\ UNCHANGED bassReleases

Tick ==
    /\ TickDue
    /\ ~transport.stopPending
    /\ \E lag \in 0..MaxLag : tick(now, lag)
    /\ mainLoop' = [mainLoop EXCEPT !.fired = @ + 1]
    /\ UNCHANGED <<layout, uiVars, edits, currentLayout, isInitialized, startPc,
                   transport, uiLoop, passStart, passes, stopTime, stopDelivered,
                   now, drawFired, render,
                   assetVars,
                   sessionVars>>

(***************************************************************************)
(* AudioEngine.updateUi, the callback of uiLoop.                           *)
(***************************************************************************)
UpdateUi ==
    /\ transport.state = "started"
    /\ uiLoop = "started"
    /\ ~transport.stopPending
    /\ \E levels \in MeterReadings :
          /\ levels # trackLevels
          /\ trackLevels' = levels
    /\ UNCHANGED <<layout, activePatternIndex, isPlaying, activeStep, activeBar,
                   edits, currentLayout, currentPatternIndex, graphVars,
                   isInitialized, startPc, transport, mainLoop, uiLoop, passStart,
                   passes, stopTime, stopDelivered, now, eventVars, lastTick,
                   render,
                   assetVars,
                   sessionVars>>

(***************************************************************************)
(* The draw loop of Tone.Draw: runs the callbacks that are due, in the     *)
(* order of their times and, at equal times, in the order they were given. *)
(***************************************************************************)
DrawsUpTo(t) == {d \in drawEvents : d.time <= t}

DueDraws == DrawsUpTo(now)

DrawBefore(a, b) ==
    \/ a.time < b.time
    \/ a.time = b.time /\ a.pass < b.pass
    \/ a.time = b.time /\ a.pass = b.pass /\ a.bar < b.bar
    \/ a.time = b.time /\ a.pass = b.pass /\ a.bar = b.bar /\ a.step <= b.step

LastDraw(ds) == CHOOSE d \in ds : \A e \in ds : DrawBefore(e, d)

runDraws(ds) ==
    /\ activeStep' = LastDraw(ds).step
    /\ activeBar' = LastDraw(ds).bar
    /\ drawFired' = ds
    /\ drawEvents' = drawEvents \ ds

DrawLoop ==
    /\ DueDraws # {}
    /\ runDraws(DueDraws)
    /\ UNCHANGED <<layout, activePatternIndex, isPlaying, trackLevels, edits,
                   currentLayout, currentPatternIndex, graphVars, isInitialized,
                   startPc, transport, mainLoop, uiLoop, passStart, passes,
                   stopTime, stopDelivered, now, scheduled, bassReleases, lastTick,
                   render,
                   assetVars,
                   sessionVars>>

(***************************************************************************)
(* The audio clock.  AdvanceStep moves it by one sixteenth note.           *)
(* AdvanceBar moves it to the next per-bar tick (or, once stopped, one bar *)
(* past the stop), the draw loop running the callbacks that fall before.   *)
(* The transport clock and the draw loop run more often than either, so    *)
(* nothing that is due is left waiting when the clock moves on.  Voice     *)
(* events that are over and release times that are past are forgotten.     *)
(***************************************************************************)
elapse(t) ==
    /\ now' = t
    /\ scheduled' = {e \in scheduled : e.time + e.dur >= t}
    /\ bassReleases' = {r \in bassReleases : r >= t}

AdvanceBar ==
    /\ ~transport.stopPending
    /\ ~TickDue
    /\ \E t \in {passStart + mainLoop.fired * BarMs(transport.bpm),
                 now + BarMs(transport.bpm)} :
          /\ \/ /\ transport.state = "started"
                /\ mainLoop.state = "started"
                /\ mainLoop.fired < LoopFires(mainLoop.iterations)
                /\ t = passStart + mainLoop.fired * BarMs(transport.bpm)
             \/ /\ transport.state = "stopped"
                /\ stopTime # Null
                /\ now = stopTime
                /\ t = now + BarMs(transport.bpm)
          /\ elapse(t)
          /\ IF DrawsUpTo(t - 1) # {}
             THEN runDraws(DrawsUpTo(t - 1))
             ELSE UNCHANGED <<activeStep, activeBar, drawFired, drawEvents>>
    /\ UNCHANGED <<layout, activePatternIndex, isPlaying, trackLevels, edits,
                   currentLayout, currentPatternIndex, graphVars, isInitialized,
                   startPc, transport, mainLoop, uiLoop, passStart, passes,
                   stopTime, stopDelivered, lastTick, render,
                   assetVars,
                   sessionVars>>

ClockBusy ==
    \/ /\ transport.state = "started"
       /\ mainLoop.state = "started"
       /\ mainLoop.fired < LoopFires(mainLoop.iterations)
    \/ drawEvents # {}
    \/ \E e \in scheduled : e.time + e.dur > now
    \/ stopTime # Null /\ now = stopTime

AdvanceStep ==
    /\ ~transport.stopPending
    /\ ~TickDue
    /\ DueDraws = {}
    /\ ClockBusy
    /\ elapse(now + SixteenthMs(transport.bpm))
    /\ UNCHANGED <<layout, uiVars, edits, currentLayout, currentPatternIndex,
                   graphVars, isInitialized, startPc, transport, mainLoop, uiLoop,
                   passStart, passes, stopTime, stopDelivered, drawEvents,
                   drawFired, lastTick, render,
                   assetVars,
                   sessionVars>>

(***************************************************************************)
(* Handlers of the DAW component that edit the layout and call updateAll.  *)
(***************************************************************************)
activePatternSlot ==
    IF activePatternIndex + 1 \in DOMAIN layout.patterns
    THEN activePatternIndex + 1
    ELSE 1

editFrame ==
    UNCHANGED <<uiVars, currentPatternIndex, graphVars, isInitialized, startPc,
                mainLoop, uiLoop, passStart, passes, stopTime, stopDelivered,
                now, eventVars, lastTick, render, notification, sessionVars>>

HandleMixerChange(track, property, value) ==
    /\ currentLayout # Null
    /\ edits < MaxMixerEdits
    /\ layout.patterns[activePatternSlot].trackSettings[track][property] # value
    /\ layout' = [layout EXCEPT
           !.patterns[activePatternSlot].trackSettings[track][property] = value]
    /\ updateAll(layout')
    /\ edits' = edits + 1
    /\ editFrame

assignPatternToBar(barIndex, patternIndex) ==
    /\ currentLayout # Null
    /\ edits < MaxBarEdits
    /\ BarEntry(layout, barIndex) # patternIndex
    /\ layout' = [layout EXCEPT !.arrangement[barIndex + 1] = patternIndex]
    /\ updateAll(layout')
    /\ edits' = edits + 1
    /\ editFrame

clearArrangementBar(barIndex) ==
    /\ currentLayout # Null
    /\ edits < MaxBarEdits
    /\ BarEntry(layout, barIndex) # Null
    /\ layout' = [layout EXCEPT !.arrangement[barIndex + 1] = Null]
    /\ updateAll(layout')
    /\ edits' = edits + 1
    /\ editFrame

MixerEdit ==
    \E track \in EditTracks, property \in MixerProperties :
        \E value \in MixerValues(property) :
            HandleMixerChange(track, property, value)

(***************************************************************************)
(* The effect and synth controls of the bass.  Each handler writes into    *)
(* the pattern selected in the editor and hands that pattern's state to    *)
(* the engine; neither calls updateAll.                                    *)
(***************************************************************************)
EffectNames == {"distortion", "reverb"}

WetValues == {0, 5}

SynthPaths == {"oscillator"}

SynthValues == {"sawtooth", "square"}

soundEditFrame ==
    UNCHANGED <<uiVars, currentLayout, currentPatternIndex, channels,
                isInitialized, startPc, transport, mainLoop, uiLoop, passStart,
                passes, stopTime, stopDelivered, now, eventVars, lastTick,
                render, assetVars, sessionVars>>

handleEffectWetChange(effect, value) ==
    /\ currentLayout # Null
    /\ edits < MaxSoundEdits
    /\ layout.patterns[activePatternSlot].effectsState[effect].wet # value
    /\ layout' = [layout EXCEPT
           !.patterns[activePatternSlot].effectsState[effect].wet = value]
    /\ bassEffects' =
           updateBassEffects(layout'.patterns[activePatternSlot].effectsState)
    /\ edits' = edits + 1
    /\ UNCHANGED bassSynth
    /\ soundEditFrame

handleSynthChange(path, value) ==
    /\ currentLayout # Null
    /\ edits < MaxSoundEdits
    /\ layout.patterns[activePatternSlot].synthState[path] # value
    /\ layout' = [layout EXCEPT
           !.patterns[activePatternSlot].synthState[path] = value]
    /\ bassSynth' = setBassSynth(layout'.patterns[activePatternSlot].synthState)
    /\ edits' = edits + 1
    /\ UNCHANGED bassEffects
    /\ soundEditFrame

EffectWetChange ==
    \E effect \in EffectNames, value \in WetValues :
        handleEffectWetChange(effect, value)

SynthChange ==
    \E path \in SynthPaths, value \in SynthValues :
        handleSynthChange(path, value)

handleBarDrop ==
    \E barIndex \in 0..(ArrLen(layout) - 1) :
        \E patternIndex \in 0..(Len(layout.patterns) - 1) :
            assignPatternToBar(barIndex, patternIndex)

\* A click on a bar assigns the active pattern to it.
handleBarClick ==
    \E barIndex \in 0..(ArrLen(layout) - 1) :
        assignPatternToBar(barIndex, activePatternIndex)

\* parseInt(text, 10) on the text of a drag payload: an optional sign and
\* the longest prefix of decimal digits, NaN when there is no digit.
DecimalDigits == <<"0", "1", "2", "3", "4", "5", "6", "7", "8", "9">>

IsDigit(c) == \E d \in DOMAIN DecimalDigits : DecimalDigits[d] = c

DigitValue(c) == (CHOOSE d \in DOMAIN DecimalDigits : DecimalDigits[d] = c) - 1

RECURSIVE parseDigits(_, _, _)
parseDigits(text, i, acc) ==
    IF i > Len(text) \/ ~IsDigit(text[i])
    THEN acc
    ELSE parseDigits(text, i + 1, 10 * acc + DigitValue(text[i]))

parseInt(text) ==
    LET signed == Len(text) > 0 /\ text[1] \in {"-", "+"}
        first  == IF signed THEN 2 ELSE 1
    IN IF first > Len(text) \/ ~IsDigit(text[first])
       THEN [isNaN |-> TRUE, value |-> 0]
       ELSE [isNaN |-> FALSE,
             value |-> (IF signed /\ text[1] = "-" THEN -1 ELSE 1)
                          * parseDigits(text, first, 0)]

\* The texts a drop on a bar can carry: the index of a dragged pattern
\* button, or whatever text was dragged from elsewhere.
DragPayloads ==
    {<<"0">>, <<"1">>, <<"7">>, <<"-", "1">>, <<"1", "2">>, <<"1", "x">>,
     <<"x">>, <<>>}

handleBarDropText(barIndex, text) ==
    /\ ~parseInt(text).isNaN
    /\ assignPatternToBar(barIndex, parseInt(text).value)

DropOnBar ==
    \E barIndex \in 0..(ArrLen(layout) - 1) : \E text \in DragPayloads :
        handleBarDropText(barIndex, text)

\* A click on a pattern button.
SelectPattern ==
    \E i \in 0..(Len(layout.patterns) - 1) :
        /\ currentLayout # Null
        /\ i # activePatternIndex
        /\ activePatternIndex' = i
        /\ UNCHANGED <<layout, isPlaying, activeStep, activeBar, trackLevels,
                       edits, currentLayout, currentPatternIndex, graphVars,
                       isInitialized, startPc, transport, mainLoop, uiLoop,
                       passStart, passes, stopTime, stopDelivered, now,
                       eventVars, lastTick, render, assetVars, sessionVars>>

ClearBar ==
    \E barIndex \in 0..(ArrLen(layout) - 1) : clearArrangementBar(barIndex)

(***************************************************************************)
(* AudioEngine.renderSong, called by handleExport with the component's     *)
(* layout.  The callback awaits the loading of the samples before its bar  *)
(* loop runs.                                                              *)
(***************************************************************************)
renderFrame_sharedChannels ==
    /\ channels' = offlineGraph.channels
    /\ UNCHANGED <<layout, uiVars, edits, currentLayout, currentPatternIndex,
                   bassEffects, bassSynth, isInitialized, startPc, transport,
                   mainLoop, uiLoop, passStart, passes, stopTime, stopDelivered,
                   now, eventVars, lastTick, master, instruments, loads, init,
                   lastUpdate, ai, storage, midi>>

renderFrame ==
    UNCHANGED <<layout, uiVars, edits, currentLayout, currentPatternIndex,
                graphVars, isInitialized, startPc, transport, mainLoop, uiLoop,
                passStart, passes, stopTime, stopDelivered, now, eventVars,
                lastTick, master, instruments, loads, init, lastUpdate, ai,
                storage, midi>>

\* The call of renderSong up to the await of the samples: the bar duration
\* is taken before Tone.Offline is entered, the offline tempo inside it.
renderSongCall(lay, prev) ==
    [pc            |-> "loading",
     barDuration   |-> BarMs(transport.bpm),
     totalDuration |-> BarMs(transport.bpm) * ArrLen(lay),
     bpm           |-> lay.bpm,
     graph         |-> offlineGraph,
     runs          |-> render.runs + 1,
     prev          |-> prev]

RenderBegin ==
    /\ currentLayout # Null
    /\ render.pc = "idle"
    /\ render' = renderSongCall(layout, render.prev)
    /\ isRendering' = TRUE
    /\ notification' = "Rendering song..."
    /\ UNCHANGED exported
    /\ renderFrame

RenderSchedule ==
    /\ render.pc = "loading"
    /\ render' = [render EXCEPT
           !.pc = "done",
           !.graph = renderBars(0, layout, render.barDuration, render.bpm,
                                render.graph)]
    /\ exported' = [exported EXCEPT !.files = @ + 1]
    /\ notification' = "Export complete!"
    /\ isRendering' = FALSE
    /\ renderFrame

\* The samples of the offline graph fail to load: renderSong throws.
RenderFail_staysBusy ==
    /\ render.pc = "loading"
    /\ render' = [render EXCEPT !.pc = "failed"]
    /\ notification' = "Export failed."
    /\ UNCHANGED <<isRendering, exported>>
    /\ renderFrame

RenderFail ==
    /\ render.pc = "loading"
    /\ render' = [render EXCEPT !.pc = "failed"]
    /\ notification' = "Export failed."
    /\ isRendering' = FALSE
    /\ UNCHANGED exported
    /\ renderFrame

\* Export pressed again once the previous export is over.
RenderAgain ==
    /\ render.pc \in {"done", "failed"}
    /\ render.runs < MaxRenders
    /\ render' = renderSongCall(layout,
                     IF render.pc = "done"
                     THEN [done |-> TRUE,
                           totalDuration |-> render.totalDuration,
                           events |-> render.graph.events]
                     ELSE render.prev)
    /\ isRendering' = TRUE
    /\ notification' = "Rendering song..."
    /\ UNCHANGED exported
    /\ renderFrame

(***************************************************************************)
(* AudioEngine.setBpm, an operation of the engine's interface: the tempo   *)
(* of the live transport is set on its own, the layout is not touched.     *)
(***************************************************************************)
setBpm(bpm) ==
    /\ transport' = [transport EXCEPT !.bpm = bpm]
    /\ UNCHANGED <<layout, uiVars, edits, currentLayout, currentPatternIndex,
                   graphVars, isInitialized, startPc, mainLoop, uiLoop,
                   passStart, passes, stopTime, stopDelivered, now, eventVars,
                   lastTick, render, assetVars,
                   sessionVars>>

SetBpm ==
    \E bpm \in BpmValues :
        /\ bpm # transport.bpm
        /\ setBpm(bpm)

(***************************************************************************)
(* The AI handlers of the component and the helpers they call.  A helper   *)
(* returns what JSON.parse makes of the model's answer, or null when the   *)
(* request fails or the answer is empty: it catches its own errors.        *)
(***************************************************************************)
AiSynthState ==
    [oscillator     |-> "square",
     envelope       |-> "0.02 0.3 0.1 0.1",
     filter         |-> "bandpass -24 Q 4",
     filterEnvelope |-> "0.02 0.2 0.1 0.1 base 400 octaves 2"]

AiEffects ==
    [distortion |-> "distortion 0.9",
     delay      |-> "4t feedback 0.3",
     reverb     |-> "decay 6"]

\* The restriction of an object to some of its fields.
Only(object, fields) == [f \in fields |-> object[f]]

TimbreResponses ==
    {JsNull,
     JsObject(Only(AiSynthState, {})),
     JsObject(Only(AiSynthState, {"oscillator", "envelope"})),
     JsObject(AiSynthState)}

EffectsResponses ==
    {JsNull,
     JsObject(Only(AiEffects, {})),
     JsObject(Only(AiEffects, {"distortion"})),
     JsObject(AiEffects)}

AiChords(n) == [i \in 1..n |-> IF i % 4 = 1 THEN "Am7" ELSE ""]

\* The answers to a chord request: none, or a JSON array of strings.
ChordAnswers ==
    {JsNull, JsArray(AiChords(0)), JsArray(AiChords(NumSteps - 1)),
     JsArray(AiChords(NumSteps)), JsArray(AiChords(NumSteps + 1))}

generateChordsFromPrompt(answer) ==
    IF ~Truthy(answer)
    THEN JsNull
    ELSE JsArray([i \in DOMAIN answer.value |->
                     IF answer.value[i] = "" THEN Rest ELSE answer.value[i]])

DrumResponses ==
    {JsNull,
     JsObject([settings |-> "pitchDecay 0.05"]),
     JsObject([synthType |-> "MembraneSynth", settings |-> "pitchDecay 0.05"])}

PromptTexts == {"", "Spacious ambient cave"}

PromptWeights == {0, 100}

aiFrame ==
    UNCHANGED <<uiVars, edits, currentPatternIndex, isInitialized, startPc,
                mainLoop, uiLoop, passStart, passes, stopTime, stopDelivered,
                now, eventVars, lastTick, render, isRendering, exported,
                storage, midi>>

\* What aiFrame leaves open besides the layout, the notification, the
\* generation and the bass synth.
aiQuiet ==
    UNCHANGED <<currentLayout, transport, channels, bassEffects, master,
                instruments, loads, init, lastUpdate>>

aiBegin(kind) ==
    [ai EXCEPT !.pc = kind, !.isAiThinking = TRUE, !.calls = @ + 1]

aiEnd(answer) ==
    [ai EXCEPT !.pc = "idle", !.isAiThinking = FALSE, !.answer = answer]

activePrompts(pattern) ==
    {p \in DOMAIN pattern.prompts : pattern.prompts[p] > 0}

\* handlePromptWeightChange, which calls updateAiTimbre up to its await.
handlePromptWeightChange(prompt, newWeight) ==
    /\ currentLayout # Null
    /\ ai.pc = "idle"
    /\ ai.calls < MaxAiCalls
    /\ layout.patterns[activePatternSlot].prompts[prompt] # newWeight
    /\ layout' = [layout EXCEPT
           !.patterns[activePatternSlot].prompts[prompt] = newWeight]
    /\ ai' = IF activePrompts(layout'.patterns[activePatternSlot]) = {}
             THEN [ai EXCEPT !.calls = @ + 1]
             ELSE aiBegin("timbre")
    /\ UNCHANGED <<notification, bassSynth>>
    /\ aiQuiet
    /\ aiFrame

PromptWeightChange ==
    \E prompt \in 1..2 : \E newWeight \in PromptWeights :
        handlePromptWeightChange(prompt, newWeight)

\* updateAiTimbre after generateTimbreFromPrompts has returned newTimbre.
updateAiTimbre(newTimbre) ==
    /\ ai.pc = "timbre"
    /\ IF Truthy(newTimbre)
       THEN /\ layout' = [layout EXCEPT
                   !.patterns[activePatternSlot].synthState = newTimbre.value]
            /\ bassSynth' = setBassSynth(newTimbre.value)
       ELSE UNCHANGED <<layout, bassSynth>>
    /\ ai' = aiEnd(newTimbre)
    /\ UNCHANGED notification
    /\ aiQuiet
    /\ aiFrame

TimbreResponse == \E newTimbre \in TimbreResponses : updateAiTimbre(newTimbre)

(***************************************************************************)
(* A prompt weight moved while a request of the Apply or Generate button   *)
(* is in flight: the weight sliders stay enabled, and updateAiTimbre runs  *)
(* next to the request.  ai.overlap is the position of this second call.   *)
(***************************************************************************)
handlePromptWeightChangeBusy(prompt, newWeight) ==
    /\ currentLayout # Null
    /\ ai.pc \in {"effects", "chords"}
    /\ ai.overlap = "idle"
    /\ ai.calls < MaxAiCalls
    /\ layout.patterns[activePatternSlot].prompts[prompt] # newWeight
    /\ layout' = [layout EXCEPT
           !.patterns[activePatternSlot].prompts[prompt] = newWeight]
    /\ ai' = IF activePrompts(layout'.patterns[activePatternSlot]) = {}
             THEN [ai EXCEPT !.calls = @ + 1, !.isAiThinking = FALSE]
             ELSE [ai EXCEPT !.calls = @ + 1, !.isAiThinking = TRUE,
                             !.overlap = "timbre"]
    /\ UNCHANGED <<notification, bassSynth>>
    /\ aiQuiet
    /\ aiFrame

PromptWeightChangeBusy ==
    \E prompt \in 1..2 : \E newWeight \in PromptWeights :
        handlePromptWeightChangeBusy(prompt, newWeight)

\* The overlapping updateAiTimbre after generateTimbreFromPrompts has
\* returned newTimbre.
updateAiTimbreOverlapped(newTimbre) ==
    /\ ai.overlap = "timbre"
    /\ IF Truthy(newTimbre)
       THEN /\ layout' = [layout EXCEPT
                   !.patterns[activePatternSlot].synthState = newTimbre.value]
            /\ bassSynth' = setBassSynth(newTimbre.value)
       ELSE UNCHANGED <<layout, bassSynth>>
    /\ ai' = [ai EXCEPT !.overlap = "idle", !.isAiThinking = FALSE]
    /\ UNCHANGED notification
    /\ aiQuiet
    /\ aiFrame

TimbreResponseOverlapped ==
    \E newTimbre \in TimbreResponses : updateAiTimbreOverlapped(newTimbre)

\* handleApplyAiEffects up to its await.
handleApplyAiEffects(fxPromptText) ==
    /\ currentLayout # Null
    /\ ai.pc = "idle"
    /\ ~ai.isAiThinking
    /\ ai.calls < MaxAiCalls
    /\ IF fxPromptText = ""
       THEN /\ notification' = "Please enter an effects prompt."
            /\ ai' = [ai EXCEPT !.calls = @ + 1]
       ELSE /\ ai' = aiBegin("effects")
            /\ UNCHANGED notification
    /\ UNCHANGED <<layout, bassSynth>>
    /\ aiQuiet
    /\ aiFrame

ApplyAiEffects ==
    \E fxPromptText \in PromptTexts : handleApplyAiEffects(fxPromptText)

OrElse(settings, effect, previous) ==
    IF effect \in DOMAIN settings THEN settings[effect] ELSE previous

\* handleApplyAiEffects after generateEffectsFromPrompt has returned.
applyAiEffects(newSettings) ==
    /\ ai.pc = "effects"
    /\ IF Truthy(newSettings)
       THEN /\ layout' = [layout EXCEPT
                   !.patterns[activePatternSlot].effectsState =
                       [e \in DOMAIN @ |->
                           [@[e] EXCEPT !.settings =
                               OrElse(newSettings.value, e, @)]]]
            /\ bassEffects' = updateBassEffects(
                   layout'.patterns[activePatternSlot].effectsState)
            /\ notification' = "AI effects applied!"
       ELSE /\ notification' = "AI failed to generate effects."
            /\ UNCHANGED <<layout, bassEffects>>
    /\ ai' = aiEnd(newSettings)
    /\ UNCHANGED <<bassSynth, currentLayout, transport, channels, master,
                   instruments, loads, init, lastUpdate>>
    /\ aiFrame

EffectsResponse ==
    \E newSettings \in EffectsResponses : applyAiEffects(newSettings)

\* handleGenerateChords up to its await.
handleGenerateChords(chordPromptText) ==
    /\ currentLayout # Null
    /\ ai.pc = "idle"
    /\ ~ai.isAiThinking
    /\ ai.calls < MaxAiCalls
    /\ IF chordPromptText = ""
       THEN /\ notification' = "Please enter a chord progression prompt."
            /\ ai' = [ai EXCEPT !.calls = @ + 1]
       ELSE /\ ai' = aiBegin("chords")
            /\ UNCHANGED notification
    /\ UNCHANGED <<layout, bassSynth>>
    /\ aiQuiet
    /\ aiFrame

GenerateChords ==
    \E chordPromptText \in PromptTexts : handleGenerateChords(chordPromptText)

\* handleGenerateChords after generateChordsFromPrompt has returned.
applyAiChords_anyLength(newChords) ==
    /\ ai.pc = "chords"
    /\ IF Truthy(newChords) /\ Len(newChords.value) > 0
       THEN /\ layout' = [layout EXCEPT
                   !.patterns[activePatternSlot].sequencerState.chords =
                       newChords.value]
            /\ updateAll(layout')
            /\ notification' = "AI chord progression generated!"
       ELSE /\ notification' = "AI failed to generate a valid chord progression."
            /\ UNCHANGED <<layout, currentLayout, transport, master, loads,
                           instruments, init, lastUpdate>>
    /\ ai' = aiEnd(newChords)
    /\ UNCHANGED <<bassSynth, bassEffects, channels>>
    /\ aiFrame

applyAiChords(newChords) ==
    /\ ai.pc = "chords"
    /\ IF Truthy(newChords) /\ Len(newChords.value) = 16
       THEN /\ layout' = [layout EXCEPT
                   !.patterns[activePatternSlot].sequencerState.chords =
                       newChords.value]
            /\ updateAll(layout')
            /\ notification' = "AI chord progression generated!"
       ELSE /\ notification' = "AI failed to generate a valid chord progression."
            /\ UNCHANGED <<layout, currentLayout, transport, master, loads,
                           instruments, init, lastUpdate>>
    /\ ai' = aiEnd(newChords)
    /\ UNCHANGED <<bassSynth, bassEffects, channels>>
    /\ aiFrame

ChordsResponse ==
    \E answer \in ChordAnswers : applyAiChords(generateChordsFromPrompt(answer))

\* SampleLibrary.generateAiSample up to its await.
generateAiSample(aiPrompt) ==
    /\ currentLayout # Null
    /\ ai.pc = "idle"
    /\ ~ai.isGenerating
    /\ ai.calls < MaxAiCalls
    /\ aiPrompt # ""
    /\ ai' = [ai EXCEPT !.pc = "drum", !.isGenerating = TRUE, !.calls = @ + 1]
    /\ UNCHANGED <<layout, notification, bassSynth>>
    /\ aiQuiet
    /\ aiFrame

GenerateAiSample == \E aiPrompt \in PromptTexts : generateAiSample(aiPrompt)

\* AudioEngine.generateAndRenderDrum after generateDrumParams has returned,
\* and the rest of generateAiSample.
generateAndRenderDrum(params) ==
    /\ ai.pc = "drum"
    /\ ai' = [ai EXCEPT
           !.pc = "idle", !.isGenerating = FALSE, !.answer = params,
           !.generatedSamples =
               @ + (IF Truthy(params) /\ "synthType" \in DOMAIN params.value
                    THEN 1 ELSE 0)]
    /\ UNCHANGED <<layout, notification, bassSynth>>
    /\ aiQuiet
    /\ aiFrame

DrumResponse == \E params \in DrumResponses : generateAndRenderDrum(params)

(***************************************************************************)
(* RytmAI_DAW.handleSampleSelected and AudioEngine.loadSample.  A call of  *)
(* loadSample waits for initialize(), then disposes of the track's sampler *)
(* and installs a new one, then waits for Tone.loaded().  The handler sets *)
(* layout.sampleSettings and notifies when the call has resolved, and      *)
(* notifies of the error when it has rejected; updateAll only logs.        *)
(***************************************************************************)
SelectTracks == {"kick"}

SampleUrls(track) == {track \o ".wav", track \o "_acoustic.wav"}

loadFrame ==
    UNCHANGED <<uiVars, edits, currentLayout, currentPatternIndex, graphVars,
                startPc, transport, mainLoop, uiLoop, passStart, passes,
                stopTime, stopDelivered, now, eventVars, lastTick, render,
                master, lastUpdate, sessionVars>>

handleSampleSelected(track, url) ==
    /\ currentLayout # Null
    /\ loads[track].pc = "none"
    /\ loads[track].n < MaxSampleEdits
    /\ url # layout.sampleSettings[track]
    /\ notification' = "Loading sample..."
    /\ loads' = [loads EXCEPT
           ![track] = [loadSampleCall(track, url, "ui") EXCEPT !.n = @ + 1]]
    /\ instruments' = IF isInitialized
                      THEN [instruments EXCEPT ![track] = createSampler(url)]
                      ELSE instruments
    /\ init' = [init EXCEPT !.calls = @ + (IF isInitialized THEN 0 ELSE 1)]
    /\ UNCHANGED <<layout, isInitialized>>
    /\ loadFrame

SampleSelected ==
    \E track \in SelectTracks : \E url \in SampleUrls(track) :
        handleSampleSelected(track, url)

\* initialize() of a loadSample call resolves: the call goes on to the swap.
loadSampleInitialized(track) ==
    /\ loads[track].pc = "awaitInit"
    /\ isInitialized' = TRUE
    /\ init' = [init EXCEPT !.done = @ + 1]
    /\ instruments' = [ToneLoaded(instruments) EXCEPT
                          ![track] = createSampler(loads[track].url)]
    /\ loads' = [loads EXCEPT ![track].pc = "awaitLoaded",
                              ![track].old = ToneLoaded(instruments)[track]]
    /\ UNCHANGED <<layout, notification>>
    /\ loadFrame

\* initialize() of a loadSample call rejects: the call rejects before the swap.
loadSampleInitFailed(track) ==
    /\ loads[track].pc = "awaitInit"
    /\ init.failed < MaxInitFailures
    /\ init' = [init EXCEPT !.failed = @ + 1]
    /\ loads' = [loads EXCEPT ![track].pc = "none"]
    /\ notification' = IF loads[track].by = "ui"
                       THEN "Error: Could not load sample."
                       ELSE notification
    /\ UNCHANGED <<layout, isInitialized, instruments>>
    /\ loadFrame

\* Tone.loaded() of a loadSample call resolves.
loadSampleResolved(track) ==
    /\ loads[track].pc = "awaitLoaded"
    /\ instruments[track].status # "failed"
    /\ instruments' = ToneLoaded(instruments)
    /\ loads' = [loads EXCEPT ![track].pc = "none"]
    /\ IF loads[track].by = "ui"
       THEN /\ layout' = [layout EXCEPT
                   !.sampleSettings[track] = loads[track].url]
            /\ notification' = "Sample loaded!"
       ELSE UNCHANGED <<layout, notification>>
    /\ UNCHANGED <<isInitialized, init>>
    /\ loadFrame

\* The buffer of the new sampler fails to load: Tone.loaded() rejects.
loadSampleRejected(track) ==
    /\ loads[track].pc = "awaitLoaded"
    /\ instruments[track].status = "loading"
    /\ instruments' = [instruments EXCEPT ![track].status = "failed"]
    /\ loads' = [loads EXCEPT ![track].pc = "none"]
    /\ notification' = IF loads[track].by = "ui"
                       THEN "Error: Could not load sample."
                       ELSE notification
    /\ UNCHANGED <<layout, isInitialized, init>>
    /\ loadFrame

(***************************************************************************)
(* A second selection for a track whose first selection is still loading.  *)
(* The engine is initialized, so the second loadSample swaps the sampler   *)
(* at once and awaits Tone.loaded() behind the first call: Tone.loaded()   *)
(* settles for both when no download is pending, the first call's          *)
(* continuation runs before the second's, and a download that fails        *)
(* rejects both.  loads[track].second is the second call.                  *)
(***************************************************************************)
OverlapUrls(track) == SampleUrls(track) \cup {track \o "_808.wav"}

handleSampleSelectedAgain(track, url) ==
    /\ currentLayout # Null
    /\ loads[track].pc = "awaitLoaded"
    /\ loads[track].by = "ui"
    /\ loads[track].second.pc = "none"
    /\ loads[track].second.n < MaxOverlaps
    /\ url # loads[track].url
    /\ notification' = "Loading sample..."
    /\ instruments' = [instruments EXCEPT ![track] = createSampler(url)]
    /\ loads' = [loads EXCEPT
           ![track].second = [pc |-> "awaitLoaded", url |-> url, n |-> @.n + 1]]
    /\ UNCHANGED <<layout, isInitialized, init>>
    /\ loadFrame

SampleSelectedAgain ==
    \E track \in SelectTracks : \E url \in OverlapUrls(track) :
        handleSampleSelectedAgain(track, url)

\* Tone.loaded() of the second call resolves, after the first call's.
loadSampleAgainResolved(track) ==
    /\ loads[track].second.pc = "awaitLoaded"
    /\ loads[track].pc = "none"
    /\ instruments[track].status # "failed"
    /\ instruments' = ToneLoaded(instruments)
    /\ loads' = [loads EXCEPT ![track].second.pc = "none"]
    /\ layout' = [layout EXCEPT
           !.sampleSettings[track] = loads[track].second.url]
    /\ notification' = "Sample loaded!"
    /\ UNCHANGED <<isInitialized, init>>
    /\ loadFrame

\* Tone.loaded() of the second call rejects, after the first call's.
loadSampleAgainRejected(track) ==
    /\ loads[track].second.pc = "awaitLoaded"
    /\ loads[track].pc = "none"
    /\ instruments[track].status = "failed"
    /\ loads' = [loads EXCEPT ![track].second.pc = "none"]
    /\ notification' = "Error: Could not load sample."
    /\ UNCHANGED <<layout, instruments, isInitialized, init>>
    /\ loadFrame

LoadAgainResolved == \E track \in DrumTracks : loadSampleAgainResolved(track)

LoadAgainRejected == \E track \in DrumTracks : loadSampleAgainRejected(track)

(***************************************************************************)
(* RytmAI_DAW.handleMidiNoteOn and AudioEngine.midiNoteOn: the bass voice  *)
(* is triggered at once, after initialize() has resolved.                  *)
(***************************************************************************)
MidiAttack(time) ==
    [inst |-> "bass", action |-> "attack", note |-> "midi", dur |-> 0,
     time |-> time]

midiFrame ==
    UNCHANGED <<layout, uiVars, edits, currentLayout, currentPatternIndex,
                graphVars, startPc, transport, mainLoop, uiLoop, passStart,
                passes, stopTime, stopDelivered, now, bassReleases, drawEvents,
                drawFired, lastTick, render, master, loads, notification,
                lastUpdate, sessionVars>>

midiNoteOn ==
    /\ currentLayout # Null
    /\ init.midi = "idle"
    /\ IF isInitialized
       THEN /\ scheduled' = scheduled \cup {MidiAttack(now)}
            /\ UNCHANGED init
       ELSE /\ init' = [init EXCEPT !.calls = @ + 1, !.midi = "awaitInit"]
            /\ UNCHANGED scheduled
    /\ UNCHANGED <<isInitialized, instruments>>
    /\ midiFrame

MidiInitialized ==
    /\ init.midi = "awaitInit"
    /\ isInitialized' = TRUE
    /\ instruments' = ToneLoaded(instruments)
    /\ init' = [init EXCEPT !.done = @ + 1, !.midi = "idle"]
    /\ scheduled' = scheduled \cup {MidiAttack(now)}
    /\ midiFrame

MidiInitFailed ==
    /\ init.midi = "awaitInit"
    /\ init.failed < MaxInitFailures
    /\ init' = [init EXCEPT !.failed = @ + 1, !.midi = "idle"]
    /\ UNCHANGED <<isInitialized, instruments, scheduled>>
    /\ midiFrame

(***************************************************************************)
(* MidiDispatcher.onMIDIMessage with the listeners of the component and    *)
(* the engine calls they make.  A message is handled in a task of its own, *)
(* so a midiNoteOn whose initialize() has nothing to await attacks before  *)
(* the next message; one that finds the engine uninitialized stays pending *)
(* until its awaits settle.  No prompt has a controller assigned and MIDI  *)
(* learn is off, as after construction.                                    *)
(***************************************************************************)
MidiCommands == {128, 138, 144, 145, 159, 160, 176, 179, 224, 248}

MidiNotes == {60, 62}

MidiVelocities == {0, 100}

\* command & 0xF0
highNibble(command) == (command \div 16) * 16

PitchNames ==
    <<"C", "C#", "D", "D#", "E", "F", "F#", "G", "G#", "A", "A#", "B">>

\* Tone.Midi(note).toNote()
toNote(note) ==
    [pitch |-> PitchNames[(note % 12) + 1], octave |-> (note \div 12) - 1]

\* A dispatcher that takes every 0x9n message as a note-on.
dispatched_anyVelocity(command, note, velocity) ==
    CASE highNibble(command) = 144 ->
            [type |-> "midi-note-on", note |-> note, velocity |-> velocity]
      [] highNibble(command) = 128 ->
            [type |-> "midi-note-off", note |-> note, velocity |-> velocity]
      [] highNibble(command) = 176 ->
            [type |-> "midi-control-change", controller |-> note,
             value |-> velocity]
      [] OTHER -> [type |-> "none"]

\* The event the dispatcher emits for a message.
dispatched(command, note, velocity) ==
    CASE highNibble(command) = 144 ->
            IF velocity > 0
            THEN [type |-> "midi-note-on", note |-> note, velocity |-> velocity]
            ELSE [type |-> "midi-note-off", note |-> note,
                  velocity |-> velocity]
      [] highNibble(command) = 128 ->
            [type |-> "midi-note-off", note |-> note, velocity |-> velocity]
      [] highNibble(command) = 176 ->
            [type |-> "midi-control-change", controller |-> note,
             value |-> velocity]
      [] OTHER -> [type |-> "none"]

\* bass.triggerAttack(note, undefined, velocity / 127)
triggerAttack(noteName, velocity) ==
    [state |-> "attacked", note |-> noteName, velocity |-> velocity]

\* bass.triggerRelease()
triggerRelease(voice) == [voice EXCEPT !.state = "released"]

midiMessageFrame ==
    UNCHANGED <<layout, uiVars, edits, currentLayout, currentPatternIndex,
                graphVars, startPc, transport, mainLoop, uiLoop, passStart,
                passes, stopTime, stopDelivered, now, bassReleases, drawEvents,
                drawFired, lastTick, render, master, loads, notification,
                lastUpdate, ai, isRendering, exported, storage>>

\* handleMidiNoteOn and AudioEngine.midiNoteOn up to its await.
handleMidiNoteOn(event, received) ==
    IF isInitialized
    THEN /\ midi' = [received EXCEPT
                !.voice = triggerAttack(toNote(event.note), event.velocity)]
         /\ scheduled' = scheduled \cup {MidiAttack(now)}
         /\ UNCHANGED init
    ELSE /\ midi' = [received EXCEPT !.pending = Append(@, event)]
         /\ init' = [init EXCEPT !.calls = @ + 1]
         /\ UNCHANGED scheduled

\* handleMidiNoteOff and AudioEngine.midiNoteOff, which does not read its
\* argument.
midiNoteOff(noteName, received) ==
    /\ midi' = [received EXCEPT !.voice = triggerRelease(@)]
    /\ UNCHANGED <<scheduled, init>>

onMIDIMessage(command, note, velocity) ==
    LET event == dispatched(command, note, velocity)
        received ==
            [midi EXCEPT
                !.message = <<command, note, velocity>>,
                !.last = event,
                !.held = CASE event.type = "midi-note-on"  -> @ \cup {note}
                           [] event.type = "midi-note-off" -> @ \ {note}
                           [] OTHER -> @]
    IN  /\ currentLayout # Null
        /\ CASE event.type = "midi-note-on" ->
                    /\ Len(midi.pending) < MaxPendingNotes
                    /\ handleMidiNoteOn(event, received)
              [] event.type = "midi-note-off" ->
                    midiNoteOff(toNote(note), received)
              [] OTHER ->
                    /\ midi' = received
                    /\ UNCHANGED <<scheduled, init>>
        /\ UNCHANGED <<isInitialized, instruments>>
        /\ midiMessageFrame

OnMidiMessage ==
    \E command \in MidiCommands, note \in MidiNotes,
       velocity \in MidiVelocities :
        onMIDIMessage(command, note, velocity)

\* The awaits of the oldest pending midiNoteOn have settled.
MidiNoteOnResumes ==
    /\ midi.pending # <<>>
    /\ isInitialized' = TRUE
    /\ instruments' = ToneLoaded(instruments)
    /\ init' = [init EXCEPT !.done = @ + 1]
    /\ midi' = [midi EXCEPT
           !.pending = Tail(@),
           !.voice = triggerAttack(toNote(Head(midi.pending).note),
                                   Head(midi.pending).velocity)]
    /\ scheduled' = scheduled \cup {MidiAttack(now)}
    /\ midiMessageFrame

NextMidi ==
    \/ ConnectedCallback
    \/ OnMidiMessage
    \/ MidiNoteOnResumes

SpecMidi == InitClock /\ [][NextMidi]_vars

LoadInitialized == \E track \in DrumTracks : loadSampleInitialized(track)

LoadInitFailed == \E track \in DrumTracks : loadSampleInitFailed(track)

LoadResolved == \E track \in DrumTracks : loadSampleResolved(track)

LoadRejected == \E track \in DrumTracks : loadSampleRejected(track)

(***************************************************************************)
(* Spec: playback seen bar by bar while the user edits the arrangement.    *)
(* SpecMixer: playback seen bar by bar while the user edits the mixer, and *)
(* offline renders.  SpecClock: playback of a one-bar arrangement seen     *)
(* step by step, with the draw loop and the meters.  SpecRender: offline   *)
(* renders, one after another, of a layout the engine holds, while the     *)
(* tempo of the live transport is set through the engine's interface.      *)
(* SpecSamples: the first bar of the playback of a one-bar arrangement     *)
(* while samples load, the user selects samples, and audio initializations *)
(* resolve or reject.  SpecInit: the calls that initialize the audio, from *)
(* the start button, the sample loads and the MIDI keyboard.  SpecReload:   *)
(* the user selects samples and edits the mixer of a one-bar arrangement,  *)
(* which calls updateAll again.                                            *)
(***************************************************************************)
Next ==
    \/ ConnectedCallback
    \/ TogglePlay
    \/ InitializeDone
    \/ StopEvent
    \/ Tick
    \/ AdvanceBar
    \/ handleBarDrop
    \/ ClearBar

Spec == Init /\ [][Next]_vars

NextMixer ==
    \/ ConnectedCallback
    \/ TogglePlay
    \/ InitializeDone
    \/ StopEvent
    \/ Tick
    \/ AdvanceBar
    \/ MixerEdit
    \/ RenderBegin
    \/ RenderSchedule
    \/ RenderFail

SpecMixer == Init /\ [][NextMixer]_vars

NextClock ==
    \/ ConnectedCallback
    \/ TogglePlay
    \/ InitializeDone
    \/ StopEvent
    \/ Tick
    \/ UpdateUi
    \/ DrawLoop
    \/ AdvanceStep

SpecClock == InitClock /\ [][NextClock]_vars

NextRender ==
    \/ ConnectedCallback
    \/ SetBpm
    \/ RenderBegin
    \/ RenderSchedule
    \/ RenderFail
    \/ RenderAgain

SpecRender == Init /\ [][NextRender]_vars

NextSamples ==
    \/ ConnectedCallback
    \/ TogglePlay
    \/ InitializeDone
    \/ InitializeFail
    \/ StopEvent
    \/ Tick
    \/ SampleSelected
    \/ LoadInitialized
    \/ LoadInitFailed
    \/ LoadResolved
    \/ LoadRejected

SpecSamples == InitClock /\ [][NextSamples]_vars

NextInit ==
    \/ ConnectedCallback
    \/ TogglePlay
    \/ InitializeDone
    \/ InitializeFail
    \/ SampleSelected
    \/ LoadInitialized
    \/ LoadInitFailed
    \/ LoadResolved
    \/ LoadRejected
    \/ midiNoteOn
    \/ MidiInitialized
    \/ MidiInitFailed

SpecInit == InitClock /\ [][NextInit]_vars

NextReload ==
    \/ ConnectedCallback
    \/ MixerEdit
    \/ SampleSelected
    \/ LoadInitialized
    \/ LoadInitFailed
    \/ LoadResolved
    \/ LoadRejected

SpecReload == InitClock /\ [][NextReload]_vars

NextLayout ==
    \/ ConnectedCallback
    \/ SelectPattern
    \/ handleBarClick
    \/ DropOnBar
    \/ ClearBar

SpecLayout == Init /\ [][NextLayout]_vars

(***************************************************************************)
(* AudioEngine.audioBufferToWav, the last step of renderSong and of        *)
(* generateAndRenderDrum: the buffer Tone.Offline resolved with is encoded *)
(* as 16-bit PCM.  A sample is kept in quarters, so 4 is full scale; the   *)
(* buffers are cut to a few frames.  DataView writes are little-endian and *)
(* keep the low bytes of the value.                                        *)
(***************************************************************************)
SampleUnit == 4

SampleValues == {-8, -1, 4}

SampleRates == {22050, 44100, 48000}

AudioBuffers ==
    UNION {UNION {{[length |-> n, numberOfChannels |-> c, sampleRate |-> r,
                    channelData |-> data] :
                      data \in [1..c -> [1..n -> SampleValues]]} :
                         r \in SampleRates} :
                            <<n, c>> \in (0..MaxFrames) \X {1, 2}}

\* The low bytes of a value that is not negative, lowest first: what is
\* above the width of the field is dropped.
LittleEndian(value, width) ==
    [k \in 1..width |-> (value \div (256 ^ (k - 1))) % 256]

setUint16(data) == LittleEndian(data, 2)

setUint32(data) == LittleEndian(data, 4)

\* Two's complement of a value in -32768..32767.
setInt16(data) == LittleEndian((data + 65536) % 65536, 2)

\* x | 0 for x = numerator / SampleUnit: the fraction is cut off.
truncate(numerator) ==
    IF numerator >= 0
    THEN numerator \div SampleUnit
    ELSE -((-numerator) \div SampleUnit)

scaleSample(value) ==
    LET low    == IF value > SampleUnit THEN SampleUnit ELSE value
        sample == IF low < -SampleUnit THEN -SampleUnit ELSE low
    IN  IF 2 * sample + SampleUnit < 0
        THEN truncate(sample * 32768)
        ELSE truncate(sample * 32767)

wavHeader_chunkFromStart(buffer, length) ==
    LET numOfChan == buffer.numberOfChannels
    IN  setUint32(1179011410) \o setUint32(length - 8)
        \o setUint32(1163280727) \o setUint32(544501094) \o setUint32(16)
        \o setUint16(1) \o setUint16(numOfChan)
        \o setUint32(buffer.sampleRate)
        \o setUint32(buffer.sampleRate * 2 * numOfChan)
        \o setUint16(numOfChan * 2) \o setUint16(16)
        \o setUint32(1635017060) \o setUint32(length - 4)

\* The header; pos is the number of bytes written so far.
wavHeader(buffer, length) ==
    LET numOfChan == buffer.numberOfChannels
        written ==
            setUint32(1179011410) \o setUint32(length - 8)
            \o setUint32(1163280727) \o setUint32(544501094) \o setUint32(16)
            \o setUint16(1) \o setUint16(numOfChan)
            \o setUint32(buffer.sampleRate)
            \o setUint32(buffer.sampleRate * 2 * numOfChan)
            \o setUint16(numOfChan * 2) \o setUint16(16)
            \o setUint32(1635017060)
        pos == Len(written)
    IN  written \o setUint32(length - pos - 4)

\* The bytes of the ArrayBuffer: the header, then the frames interleaved
\* while pos < length.
audioBufferToWav(buffer) ==
    LET numOfChan == buffer.numberOfChannels
        length    == buffer.length * numOfChan * 2 + 44
        header    == wavHeader(buffer, length)
        sampleAt(pos) ==
            LET written == (pos - Len(header)) \div 2
                offset  == written \div numOfChan
                i       == written % numOfChan
            IN  setInt16(scaleSample(buffer.channelData[i + 1][offset + 1]))
    IN  [k \in 1..length |->
            IF k <= Len(header)
            THEN header[k]
            ELSE sampleAt(k - 1)[1 + ((k - 1 - Len(header)) % 2)]]

\* The first encoding of a page.
EncodeBuffer ==
    \E buffer \in AudioBuffers :
        /\ exported.wav = <<>>
        /\ exported' = [exported EXCEPT !.buffer = buffer,
                                        !.wav = audioBufferToWav(buffer)]
        /\ UNCHANGED <<layout, uiVars, edits, currentLayout,
                       currentPatternIndex, graphVars, isInitialized, startPc,
                       transport, mainLoop, uiLoop, passStart, passes,
                       stopTime, stopDelivered, now, eventVars, lastTick,
                       render, assetVars, ai, isRendering, storage, midi>>

NextWav ==
    \/ ConnectedCallback
    \/ EncodeBuffer

SpecWav == InitClock /\ [][NextWav]_vars

(***************************************************************************)
(* The step sequencer.  A click on a step button changes one entry of one  *)
(* track of the active pattern and dispatches 'sequence-changed', which    *)
(* the component answers by storing the state and calling updateAll.  The  *)
(* buttons are rendered from the steps, so a step index is inside them.    *)
(***************************************************************************)
BASS_NOTES == <<"F4", "D#4", "C4", "A#3", "G3", "F3", "D#3", "C3", Rest>>

EditSteps(steps) == {i \in {0} : i < Len(steps)}

handleSequenceChange_reschedules(sequencerState) ==
    /\ currentLayout # Null
    /\ Len(layout.patterns) > 0
    /\ edits < MaxStepEdits
    /\ layout' = [layout EXCEPT
           !.patterns[activePatternSlot].sequencerState = sequencerState]
    /\ updateAll(layout')
    /\ edits' = edits + 1
    /\ scheduled' =
           {e \in scheduled :
               StepPresent(layout'.patterns[activePatternSlot],
                           e.inst, NumSteps - 1)}
    /\ UNCHANGED <<uiVars, currentPatternIndex, graphVars, isInitialized,
                   startPc, mainLoop, uiLoop, passStart, passes, stopTime,
                   stopDelivered, now, bassReleases, drawEvents, drawFired,
                   lastTick, render, notification, sessionVars>>

handleSequenceChange(sequencerState) ==
    /\ currentLayout # Null
    /\ Len(layout.patterns) > 0
    /\ edits < MaxStepEdits
    /\ layout' = [layout EXCEPT
           !.patterns[activePatternSlot].sequencerState = sequencerState]
    /\ updateAll(layout')
    /\ edits' = edits + 1
    /\ editFrame

toggleDrumStep(trackName, stepIndex) ==
    handleSequenceChange(
        [layout.patterns[activePatternSlot].sequencerState EXCEPT
            ![trackName][stepIndex + 1] = ~@])

\* BASS_NOTES.indexOf(currentNote), 0-based; -1 when the note is not listed.
indexOfNote(note) ==
    IF \E i \in DOMAIN BASS_NOTES : BASS_NOTES[i] = note
    THEN (CHOOSE i \in DOMAIN BASS_NOTES :
             /\ BASS_NOTES[i] = note
             /\ \A j \in DOMAIN BASS_NOTES : BASS_NOTES[j] = note => i <= j) - 1
    ELSE -1

cycleBassNote(stepIndex) ==
    LET sequencerState == layout.patterns[activePatternSlot].sequencerState
        currentNote == sequencerState.bass[stepIndex + 1]
        nextIndex   == (indexOfNote(currentNote) + 1) % Len(BASS_NOTES)
    IN  handleSequenceChange(
            [sequencerState EXCEPT
                !.bass[stepIndex + 1] = BASS_NOTES[nextIndex + 1]])

clearChordStep(stepIndex) ==
    handleSequenceChange(
        [layout.patterns[activePatternSlot].sequencerState EXCEPT
            !.chords[stepIndex + 1] = Rest])

ToggleDrumStep ==
    /\ Len(layout.patterns) > 0
    /\ \E trackName \in EditTracks :
          \E stepIndex \in EditSteps(
                 layout.patterns[activePatternSlot].sequencerState[trackName]) :
              toggleDrumStep(trackName, stepIndex)

CycleBassNote ==
    /\ Len(layout.patterns) > 0
    /\ \E stepIndex \in EditSteps(
             layout.patterns[activePatternSlot].sequencerState.bass) :
          cycleBassNote(stepIndex)

ClearChordStep ==
    /\ Len(layout.patterns) > 0
    /\ \E stepIndex \in EditSteps(
             layout.patterns[activePatternSlot].sequencerState.chords) :
          clearChordStep(stepIndex)

(***************************************************************************)
(* Saving and reloading.  handleSave stores the active pattern index and   *)
(* the scroll position of the timeline in the layout and dispatches        *)
(* 'save-layout'; the listener of main() writes the layout to localStorage *)
(* and notifies.  A reload of the page runs main() again; the count of     *)
(* edits runs on across the reload.                                        *)
(***************************************************************************)
ScrollPositions == {0, 240}

handleSave ==
    \E scrollLeft \in ScrollPositions :
        /\ currentLayout # Null
        /\ Len(layout.patterns) > 0
        /\ layout' = [layout EXCEPT
               !.activePatternIndex = activePatternIndex,
               !.timelineScrollPosition = scrollLeft]
        /\ storage.saves < MaxSaves
        /\ storage' = [storage EXCEPT !.item = JSONstringify(layout'),
                                      !.saves = @ + 1]
        /\ notification' = "Project Saved!"
        /\ UNCHANGED <<uiVars, edits, currentLayout, currentPatternIndex,
                       graphVars, isInitialized, startPc, transport, mainLoop,
                       uiLoop, passStart, passes, stopTime, stopDelivered, now,
                       eventVars, lastTick, render, master, instruments, loads,
                       init, lastUpdate, ai, isRendering, exported, midi>>

reload(item) ==
    LET loaded == loadOrDefaultLayout(item)
    IN  /\ storage.reloads < MaxReloads
        /\ layout' = loaded.layout
        /\ UNCHANGED edits
        /\ storage' = [item |-> loaded.item, read |-> item,
                       reloads |-> storage.reloads + 1,
                       saves |-> storage.saves]
        /\ activePatternIndex' = 0
        /\ isPlaying' = FALSE
        /\ activeStep' = -1
        /\ activeBar' = -1
        /\ trackLevels' = silentLevels
        /\ currentLayout' = Null
        /\ currentPatternIndex' = Null
        /\ channels' = constructorChannels
        /\ bassEffects' = constructorBassEffects
        /\ bassSynth' = constructorBassSynth
        /\ isInitialized' = FALSE
        /\ startPc' = "idle"
        /\ transport' = [state |-> "stopped", stopPending |-> FALSE, bpm |-> 120]
        /\ mainLoop' = [state |-> "stopped", iterations |-> 0, fired |-> 0]
        /\ uiLoop' = "stopped"
        /\ passStart' = 0
        /\ passes' = 0
        /\ stopTime' = Null
        /\ stopDelivered' = FALSE
        /\ now' = 0
        /\ scheduled' = {}
        /\ bassReleases' = {}
        /\ drawEvents' = {}
        /\ drawFired' = {}
        /\ lastTick' = noTick
        /\ render' = renderIdle
        /\ master' = constructorMaster
        /\ instruments' = constructorInstruments
        /\ loads' = [t \in DrumTracks |-> noLoad]
        /\ init' = [calls |-> 0, done |-> 0, failed |-> 0, startFailed |-> 0,
                   midi |-> "idle", again |-> "idle"]
        /\ notification' = "none"
        /\ lastUpdate' = noUpdate
        /\ ai' = noGeneration
        /\ isRendering' = FALSE
        /\ exported' = noExport
        /\ midi' = noMidi

Reload == reload(storage.item)

\* The reset button, confirmed: the item is removed and the page reloaded.
handleReset ==
    /\ currentLayout # Null
    /\ reload(NoItem)

NextStart ==
    \/ ConnectedCallback
    \/ TogglePlay
    \/ TogglePlayAgain
    \/ InitializeDone
    \/ StartAgainDone
    \/ StopEvent
    \/ Tick
    \/ AdvanceBar

SpecStart == InitClock /\ [][NextStart]_vars

NextEdits ==
    \/ ConnectedCallback
    \/ TogglePlay
    \/ InitializeDone
    \/ StopEvent
    \/ Tick
    \/ AdvanceBar
    \/ ToggleDrumStep
    \/ CycleBassNote
    \/ ClearChordStep

SpecEdits == Init /\ [][NextEdits]_vars

NextSound ==
    \/ ConnectedCallback
    \/ SelectPattern
    \/ TogglePlay
    \/ InitializeDone
    \/ StopEvent
    \/ Tick
    \/ AdvanceBar
    \/ EffectWetChange
    \/ SynthChange

SpecSound == Init /\ [][NextSound]_vars

NextBusy ==
    \/ ConnectedCallback
    \/ PromptWeightChange
    \/ TimbreResponse
    \/ ApplyAiEffects
    \/ EffectsResponse
    \/ GenerateChords
    \/ ChordsResponse
    \/ PromptWeightChangeBusy
    \/ TimbreResponseOverlapped

SpecBusy == InitClock /\ [][NextBusy]_vars

NextOverlap ==
    \/ ConnectedCallback
    \/ SampleSelected
    \/ LoadInitialized
    \/ LoadInitFailed
    \/ LoadResolved
    \/ LoadRejected
    \/ SampleSelectedAgain
    \/ LoadAgainResolved
    \/ LoadAgainRejected

SpecOverlap == InitClock /\ [][NextOverlap]_vars

NextSteps ==
    \/ ConnectedCallback
    \/ SelectPattern
    \/ ToggleDrumStep
    \/ CycleBassNote
    \/ ClearChordStep
    \/ GenerateChords
    \/ ChordsResponse

SpecSteps == InitStored /\ [][NextSteps]_vars

NextStored ==
    \/ ConnectedCallback
    \/ SelectPattern
    \/ ToggleDrumStep
    \/ CycleBassNote
    \/ ClearChordStep
    \/ handleSave
    \/ Reload
    \/ handleReset

SpecStored == InitStored /\ [][NextStored]_vars

NextAi ==
    \/ ConnectedCallback
    \/ TogglePlay
    \/ InitializeDone
    \/ StopEvent
    \/ Tick
    \/ PromptWeightChange
    \/ TimbreResponse
    \/ ApplyAiEffects
    \/ EffectsResponse
    \/ GenerateChords
    \/ ChordsResponse
    \/ GenerateAiSample
    \/ DrumResponse

SpecAi == InitClock /\ [][NextAi]_vars

(***************************************************************************)
(* Vocabulary of the properties.                                           *)
(***************************************************************************)
\* A step of the per-bar tick: the tick record is replaced by a new one.
TickStep == lastTick' # lastTick /\ lastTick'.n >= 0

\* The mute a channel must have under the mute/solo policy.
EffectiveMute(settings, t) ==
    IF \E u \in Tracks : settings[u].solo
    THEN ~settings[t].solo
    ELSE settings[t].mute

\* The channel parameters a pattern's track settings resolve to.
ResolvedChannels(settings) ==
    [t \in Tracks |->
        [pan |-> settings[t].pan, volume |-> settings[t].volume,
         mute |-> EffectiveMute(settings, t)]]

\* The step of renderSong's bar loop.
RenderStep == render.pc = "loading" /\ render'.pc = "done"

(***************************************************************************)
(* C1.  Mute/solo resolution: whenever a pattern's track settings are      *)
(* applied to the mixer, by the live tick that loads the pattern or by the *)
(* per-bar mixer block of the offline render, every track's channel mute   *)
(* is (not solo) if some track of the pattern is soloed and the track's    *)
(* own mute flag otherwise; so a track that is not soloed is silent        *)
(* whenever another one is.                                                *)
(***************************************************************************)
C1_MuteSoloResolution ==
    [][/\ (TickStep /\ lastTick'.loaded) =>
            LET settings == PatternAt(layout, lastTick'.patternIndex).trackSettings
            IN \A t \in Tracks :
                  /\ channels'[t].mute = EffectiveMute(settings, t)
                  /\ ((\E u \in Tracks : settings[u].solo) /\ ~settings[t].solo)
                        => channels'[t].mute
       /\ RenderStep =>
            \A b \in 0..(ArrLen(layout) - 1) :
               BarEntry(layout, b) # Null =>
                  LET settings == PatternAt(layout, BarEntry(layout, b)).trackSettings
                      applied == render'.graph.mixerLog[b + 1]
                  IN /\ applied.applied
                     /\ \A t \in Tracks :
                           applied.channels[t].mute = EffectiveMute(settings, t)
      ]_vars

\* A pattern with a soloed track has been loaded live and rendered offline:
\* a track that is neither soloed nor muted by its own flag is silent in both.
C1_Witness ==
    /\ lastTick.n >= 0
    /\ lastTick.loaded
    /\ render.pc = "done"
    /\ LET settings == PatternAt(layout, lastTick.patternIndex).trackSettings
       IN \E t \in Tracks :
             /\ \E u \in Tracks : settings[u].solo
             /\ ~settings[t].solo
             /\ ~settings[t].mute
             /\ channels[t].mute
             /\ \E b \in 1..Len(render.graph.mixerLog) :
                   /\ render.graph.mixerLog[b].applied
                   /\ render.graph.mixerLog[b].channels[t].mute

(***************************************************************************)
(* C2.  The resolution is recomputed on every settings update: once the    *)
(* user has changed a track's volume, pan, mute or solo in the playing     *)
(* pattern, the live channels equal the resolution of the new settings no  *)
(* later than the next per-bar tick, also when the playing pattern index   *)
(* stays the same.  Stated at the tick: after a tick that plays a pattern, *)
(* the channels equal the resolution of that pattern's current settings.   *)
(***************************************************************************)
C2_SettingsFreshAtTick ==
    [][(TickStep /\ lastTick'.patternIndex # Null) =>
          channels' = ResolvedChannels(
                          PatternAt(layout, lastTick'.patternIndex).trackSettings)
      ]_vars

(***************************************************************************)
(* C3.  A pattern switch triggers exactly one full re-sync.  As claimed: a *)
(* tick applies the pattern's track settings, bass effects and synth state *)
(* iff the bar's pattern index is non-empty and differs from the           *)
(* remembered active pattern index, and over a run of consecutive ticks    *)
(* that resolve to the same pattern index the re-sync happens on the first *)
(* of them and on no later one.                                            *)
(***************************************************************************)
SyncedTo(patternIndex) ==
    LET pattern == PatternAt(layout, patternIndex)
    IN /\ channels' = ResolvedChannels(pattern.trackSettings)
       /\ bassEffects' = pattern.effectsState
       /\ bassSynth' = pattern.synthState
       /\ currentPatternIndex' = patternIndex

SyncIffSwitch ==
    TickStep =>
       IF /\ lastTick'.patternIndex # Null
          /\ lastTick'.patternIndex # currentPatternIndex
       THEN lastTick'.loaded /\ SyncedTo(lastTick'.patternIndex)
       ELSE ~lastTick'.loaded /\ UNCHANGED <<graphVars, currentPatternIndex>>

FirstOfRun ==
    /\ lastTick'.patternIndex # Null
    /\ lastTick.n < 0 \/ lastTick.patternIndex # lastTick'.patternIndex

LaterInRun ==
    /\ lastTick'.patternIndex # Null
    /\ lastTick.n >= 0
    /\ lastTick.patternIndex = lastTick'.patternIndex

C3_Original ==
    [][/\ SyncIffSwitch
       /\ (TickStep /\ FirstOfRun) => lastTick'.loaded
       /\ (TickStep /\ LaterInRun) => ~lastTick'.loaded
      ]_vars

\* C3 as amended: over a run the re-sync happens at most once and only on
\* the first tick of the run, exactly when the index differs from the
\* remembered one.
C3_SyncOncePerSwitch ==
    [][/\ SyncIffSwitch
       /\ (TickStep /\ LaterInRun) => ~lastTick'.loaded
       /\ (TickStep /\ lastTick'.loaded) => FirstOfRun
      ]_vars

\* The second tick of a run has passed without a re-sync, the first one
\* having loaded the pattern.
C3_Witness ==
    /\ lastTick.n >= 1
    /\ lastTick.patternIndex # Null
    /\ ~lastTick.loaded
    /\ currentPatternIndex = lastTick.patternIndex
    /\ channels = ResolvedChannels(
                      PatternAt(layout, lastTick.patternIndex).trackSettings)

(***************************************************************************)
(* C4.  In one playback pass the k-th per-bar tick (k = 0, 1, ...)         *)
(* resolves bar_index = k and looks up arrangement[k].                     *)
(***************************************************************************)
C4_TickResolvesBarK ==
    lastTick.n >= 0 => lastTick.barIndex = lastTick.n

(***************************************************************************)
(* C5.  After start() on a layout whose arrangement has length L the       *)
(* per-bar tick fires at most L times before the next stop() or start(),   *)
(* and no step event is scheduled beyond bar L-1 of the pass.              *)
(***************************************************************************)
PassEnd == passStart + ArrLen(layout) * BarMs(transport.bpm)

C6_EmptyBarOnlyReleasesBass ==
    [][(TickStep /\ lastTick'.patternIndex = Null) =>
          /\ bassReleases' = bassReleases \cup {lastTick'.time}
          /\ lastTick'.time = now
          /\ ~lastTick'.loaded
          /\ UNCHANGED <<currentPatternIndex, channels, bassEffects, bassSynth,
                         scheduled, drawEvents, drawFired, activeStep, activeBar,
                         layout>>
      ]_vars

\* An empty bar has been ticked while a pattern was remembered as active.
C6_Witness ==
    /\ lastTick.n >= 1
    /\ lastTick.patternIndex = Null
    /\ lastTick.time \in bassReleases
    /\ currentPatternIndex # Null

(***************************************************************************)
(* C7.  For a tick at base time T that plays a pattern, and every step i   *)
(* in 0..15, the scheduler schedules at exactly T + i sixteenth notes: an  *)
(* attack of kick, snare or hihat iff that track's step i is true, a bass  *)
(* attack-release of the step's pitch lasting a sixteenth note iff the     *)
(* bass step is not a rest, a chord attack-release lasting a quarter note  *)
(* iff the chord step is not a rest, and exactly one on_step_change(i,     *)
(* bar_index) callback; nothing else is scheduled.                         *)
(***************************************************************************)
C7_StepSchedule ==
    [][(TickStep /\ lastTick'.patternIndex # Null) =>
          LET pattern == PatternAt(layout, lastTick'.patternIndex)
              base == lastTick'.time
              sixteenth == 15000 \div transport.bpm
              newVoices == scheduled' \ scheduled
              newDraws == drawEvents' \ drawEvents
              At(i) == base + i * sixteenth
          IN /\ scheduled \subseteq scheduled'
             /\ drawEvents \subseteq drawEvents'
             /\ bassReleases' = bassReleases
             /\ \A i \in 0..15 :
                   /\ \A d \in {"kick", "snare", "hihat"} :
                         StepAt(pattern, d, i) <=>
                            \E e \in newVoices :
                               e.inst = d /\ e.time = At(i)
                   /\ StepAt(pattern, "bass", i) # Rest <=>
                         \E e \in newVoices : e.inst = "bass" /\ e.time = At(i)
                   /\ StepAt(pattern, "chords", i) # Rest <=>
                         \E e \in newVoices : e.inst = "chords" /\ e.time = At(i)
                   /\ Cardinality({d \in newDraws : d.time = At(i)}) = 1
                   /\ \A d \in newDraws :
                         d.time = At(i) =>
                            d.step = i /\ d.bar = lastTick'.barIndex
             /\ \A e \in newVoices :
                   /\ \E i \in 0..15 : e.time = At(i)
                   /\ e.inst \in {"kick", "snare", "hihat"} =>
                         e.action = "attack"
                   /\ e.inst = "bass" =>
                         /\ e.action = "attackRelease"
                         /\ e.dur = sixteenth
                         /\ \E i \in 0..15 :
                               e.time = At(i) /\ e.note = StepAt(pattern, "bass", i)
                   /\ e.inst = "chords" =>
                         /\ e.action = "attackRelease"
                         /\ e.dur = 4 * sixteenth
                         /\ \E i \in 0..15 :
                               e.time = At(i) /\ e.note = StepAt(pattern, "chords", i)
                   /\ Cardinality({f \in newVoices :
                                      f.inst = e.inst /\ f.time = e.time}) = 1
             /\ Cardinality(newDraws) = 16
      ]_vars

\* A bar with drum hits, bass notes and chords has just been scheduled.
C7_Witness ==
    /\ lastTick.n >= 0
    /\ lastTick.patternIndex # Null
    /\ lastTick.time = now
    /\ \E e \in scheduled : e.inst = "kick" /\ e.time >= now
    /\ \E e \in scheduled : e.inst = "bass" /\ e.time >= now
    /\ \E e \in scheduled : e.inst = "chords" /\ e.time >= now
    /\ Cardinality({d \in drawEvents : d.time >= now}) = 16

(***************************************************************************)
(* C8.  For every bar b whose arrangement entry is empty, no drum, bass or *)
(* chord note is sounding at any time inside bar b, a note sounding from   *)
(* its scheduled start until its start plus its scheduled duration; in     *)
(* live playback and in the offline render.                                *)
(***************************************************************************)
SoundsInside(e, barStart, barLength) ==
    /\ e.time < barStart + barLength
    /\ \/ e.time + e.dur > barStart
       \/ e.time >= barStart

C8_EmptyBarsSilent ==
    [][/\ TickStep =>
            (BarEntry(layout, lastTick'.n) = Null =>
                \A e \in scheduled' :
                   ~SoundsInside(e, lastTick'.time, BarMs(transport.bpm)))
       /\ RenderStep =>
            \A b \in 0..(ArrLen(layout) - 1) :
               BarEntry(layout, b) = Null =>
                  \A e \in render'.graph.events :
                     ~SoundsInside(e, b * render.barDuration, render.barDuration)
      ]_vars

(***************************************************************************)
(* C9.  Every stop() is followed by the delivery of on_step_change(-1, -1) *)
(* and of an on_meter_update with all six levels at -Infinity, and these   *)
(* remain the last values delivered to the UI until the next start().      *)
(* Stated for the time after the delivery: while the transport stays       *)
(* stopped, the step and bar shown are -1 and all levels are -Infinity.    *)
(***************************************************************************)
C9_StopValuesStay ==
    (transport.state = "stopped" /\ stopDelivered) =>
       /\ activeStep = -1
       /\ activeBar = -1
       /\ \A m \in MeterNames : trackLevels[m] = NegInf

(***************************************************************************)
(* C10.  stop() cancels the pending scheduled events: no instrument        *)
(* trigger and no on_step_change(i, bar) callback that an earlier tick     *)
(* scheduled for a time later than the moment of stop() fires after it.    *)
(***************************************************************************)
C10_StopCancelsPending ==
    (transport.state = "stopped" /\ stopTime # Null) =>
       /\ \A e \in scheduled : e.time > stopTime => e.time > now
       /\ \A d \in drawFired : d.time <= stopTime

(***************************************************************************)
(* C11.  Live and offline scheduling agree: for every bar b, the set of    *)
(* instrument events (instrument, action, note, duration, offset from the  *)
(* bar start) the offline renderer schedules for bar b equals the set the  *)
(* live per-bar tick of bar b schedules, empty bars included.  Stated at   *)
(* the k-th live tick of a pass, once a render of the layout is done.      *)
(***************************************************************************)
BarEvent(e, barStart) ==
    [inst |-> e.inst, action |-> e.action, note |-> e.note, dur |-> e.dur,
     offset |-> e.time - barStart]

BassRelease(t) ==
    [inst |-> "bass", action |-> "release", note |-> Rest, dur |-> 0, time |-> t]

OfflineBarEvents(b) ==
    {BarEvent(e, b * render.barDuration) :
        e \in {f \in render.graph.events :
                  /\ f.time >= b * render.barDuration
                  /\ f.time < (b + 1) * render.barDuration}}

C11_LiveOfflineAgree ==
    [][(TickStep /\ render.pc = "done" /\ render'.pc = "done") =>
          {BarEvent(e, lastTick'.time) :
              e \in (scheduled' \ scheduled)
                    \cup {BassRelease(r) : r \in bassReleases' \ bassReleases}}
             = OfflineBarEvents(lastTick'.n)
      ]_vars

(***************************************************************************)
(* C12.  In the offline render the mixer (volume, pan, resolved mute),     *)
(* bass effects and bass synth settings in effect while a non-empty bar b  *)
(* is rendered are those of pattern arrangement[b].  The bar loop runs to  *)
(* its end before the offline transport starts, so the settings in effect  *)
(* while any bar is rendered are those the loop leaves in the graph.       *)
(***************************************************************************)
C12_BarRenderedWithOwnSettings ==
    [][RenderStep =>
          \A b \in 0..(ArrLen(layout) - 1) :
             BarEntry(layout, b) # Null =>
                LET pattern == PatternAt(layout, BarEntry(layout, b))
                IN /\ render'.graph.channels =
                         ResolvedChannels(pattern.trackSettings)
                   /\ render'.graph.bassEffects = pattern.effectsState
                   /\ render'.graph.bassSynth = pattern.synthState
      ]_vars

(***************************************************************************)
(* C13.  For render(layout) the total render duration is bar_duration *    *)
(* arrangement.length and step i of bar b is scheduled at b * bar_duration *)
(* + i * sixteenth, where bar_duration = 16 * sixteenth and both are       *)
(* derived from layout.bpm, whatever tempo the live transport has.         *)
(***************************************************************************)
C13_RenderTimesFromLayoutBpm ==
    [][RenderStep =>
          LET sixteenth == 15000 \div layout.bpm
              bar == 16 * sixteenth
              bars == {b \in 0..(ArrLen(layout) - 1) : BarEntry(layout, b) # Null}
          IN /\ render'.totalDuration = bar * ArrLen(layout)
             /\ \A b \in bars : \A i \in 0..15 : \A track \in Tracks :
                   StepPresent(PatternAt(layout, BarEntry(layout, b)), track, i)
                      => \E e \in render'.graph.events :
                            e.inst = track /\ e.time = b * bar + i * sixteenth
             /\ \A e \in render'.graph.events :
                   \E b \in bars : \E i \in 0..15 :
                      /\ e.time = b * bar + i * sixteenth
                      /\ StepPresent(PatternAt(layout, BarEntry(layout, b)),
                                     e.inst, i)
      ]_vars

(***************************************************************************)
(* C14.  Offline rendering is deterministic: two renders of the same       *)
(* layout have the same duration and the same event schedule, whatever     *)
(* operations of the live engine happen before or between them.            *)
(***************************************************************************)
C14_RenderDeterministic ==
    (render.pc = "done" /\ render.prev.done) =>
       /\ render.totalDuration = render.prev.totalDuration
       /\ render.graph.events = render.prev.events

(***************************************************************************)
(* C15.  An offline render leaves the live engine state unchanged: the     *)
(* held layout, the active pattern index, the transport state and tempo,   *)
(* the loops, the live channel, effect, synth and master parameters and    *)
(* the live voices are the same after every step of a render, whether the  *)
(* render succeeds or throws.                                              *)
(***************************************************************************)
C15_RenderLeavesLiveStateAlone ==
    [][render' # render =>
          UNCHANGED <<currentLayout, layout, currentPatternIndex, transport,
                      mainLoop, uiLoop, channels, bassEffects, bassSynth,
                      master, instruments, isInitialized>>
      ]_vars

\* A render has thrown while the transport was playing a loaded pattern.
C15_Witness ==
    /\ render.pc = "failed"
    /\ transport.state = "started"
    /\ lastTick.n >= 0
    /\ currentPatternIndex # Null
    /\ channels # offlineGraph.channels

(***************************************************************************)
(* C16.  updateAll(layout) starts a sample reload for a drum track exactly *)
(* when the track's sample source differs from its value at the previous   *)
(* updateAll call, and for all three tracks at the first call; a source    *)
(* changed by mutating the layout object in place counts as changed.       *)
(***************************************************************************)
C16_ReloadExactlyChanged ==
    [][lastUpdate'.n = lastUpdate.n + 1 =>
          lastUpdate'.reloaded =
             IF lastUpdate.n = 0
             THEN DrumTracks
             ELSE {track \in DrumTracks :
                      lastUpdate.samples[track] # layout'.sampleSettings[track]}
      ]_vars

(***************************************************************************)
(* C17.  When a loadSample(track, url) call of the user fails with a load  *)
(* error, the state is left unchanged: the track's voice is the voice it   *)
(* had before the call, layout.sampleSettings[track] keeps its value, and  *)
(* the user is notified of the error.                                      *)
(***************************************************************************)
LoadErrorStep(track) ==
    /\ loads[track].pc = "awaitLoaded"
    /\ loads[track].by = "ui"
    /\ loads'[track].pc = "none"
    /\ instruments'[track].status = "failed"

C17_FailedLoadChangesNothing ==
    [][\A track \in DrumTracks :
          LoadErrorStep(track) =>
             /\ instruments'[track] = loads[track].old
             /\ instruments'[track].status = "loaded"
             /\ layout'.sampleSettings = layout.sampleSettings
             /\ notification' = "Error: Could not load sample."
      ]_vars

(***************************************************************************)
(* C18.  A per-bar tick never triggers a drum voice that is disposed or    *)
(* whose sample has not finished loading: at every tick that schedules a   *)
(* pattern, the sampler of each drum track with an active step is loaded.  *)
(***************************************************************************)
TriggeredTracks(pattern) ==
    {track \in DrumTracks : \E i \in 0..(NumSteps - 1) : StepAt(pattern, track, i)}

C18_TickTriggersLoadedVoices ==
    [][(TickStep /\ lastTick'.patternIndex # Null) =>
          \A track \in TriggeredTracks(PatternAt(layout, lastTick'.patternIndex)) :
             instruments[track].status = "loaded"
      ]_vars

(***************************************************************************)
(* C19.  The audio initialization is performed at most once over any       *)
(* sequence of start, loadSample and midiNoteOn calls, overlapping calls   *)
(* included.                                                               *)
(***************************************************************************)
C19_InitializedOnce ==
    /\ init.calls <= 1
    /\ init.done <= 1

(***************************************************************************)
(* C20.  When the initialization of a start() call fails, the transport    *)
(* and both loops are not started, the initialized flag is not set, and no *)
(* initialization is attempted by that step; the next call of the user     *)
(* (start, loadSample, midiNoteOn) on the uninitialized engine attempts it *)
(* again.                                                                  *)
(***************************************************************************)
StartInitFails ==
    /\ startPc = "awaitInit"
    /\ startPc' = "idle"
    /\ init'.startFailed = init.startFailed + 1

UserCallsEngine ==
    \/ startPc = "idle" /\ startPc' = "awaitInit"
    \/ \E track \in DrumTracks :
          loads'[track].n = loads[track].n + 1
    \/ init.midi = "idle" /\ init'.midi = "awaitInit"

C20_FailedInitStartsNothing ==
    [][/\ StartInitFails =>
             /\ UNCHANGED <<transport, mainLoop, uiLoop, isInitialized,
                            isPlaying, passes>>
             /\ init'.calls = init.calls
       /\ (UserCallsEngine /\ ~isInitialized /\ init.failed > 0) =>
             init'.calls = init.calls + 1
      ]_vars

\* The start button is pressed again after a start whose initialization
\* failed: a new initialization is pending, nothing has been started.
C20_Witness ==
    /\ init.startFailed > 0
    /\ startPc = "awaitInit"
    /\ ~isInitialized
    /\ transport.state = "stopped"
    /\ mainLoop.state = "stopped"
    /\ uiLoop = "stopped"

(***************************************************************************)
(* C21.  AI parameter updates are all-or-nothing: when the timbre answer   *)
(* or the effects answer is null, empty or lacks an expected field, the    *)
(* layout (the active pattern's synthState and effectsState with it) and   *)
(* the live bass synth and effects are left as they were.                  *)
(***************************************************************************)
AiAnswered(kind) == ai.pc = kind /\ ai'.pc = "idle"

Complete(answer, fields) ==
    Truthy(answer) /\ fields \subseteq DOMAIN answer.value

C21_AiUpdateAllOrNothing ==
    [][/\ (AiAnswered("timbre") /\ ~Complete(ai'.answer, DOMAIN AiSynthState))
             => UNCHANGED <<layout, bassSynth, bassEffects>>
       /\ (AiAnswered("effects") /\ ~Complete(ai'.answer, DOMAIN AiEffects))
             => UNCHANGED <<layout, bassSynth, bassEffects>>
      ]_vars

(***************************************************************************)
(* C22.  Chord generation replaces the active pattern's chord steps if and *)
(* only if the helper returns an array of exactly 16 entries; otherwise    *)
(* the layout is unchanged, updateAll is not called and a notification is  *)
(* shown.                                                                  *)
(***************************************************************************)
C22_ChordsReplacedIffSixteen ==
    [][AiAnswered("chords") =>
          IF ai'.answer.type = "array" /\ Len(ai'.answer.value) = 16
          THEN /\ layout'.patterns[activePatternSlot].sequencerState.chords
                     = ai'.answer.value
               /\ lastUpdate'.n = lastUpdate.n + 1
          ELSE /\ UNCHANGED <<layout, lastUpdate>>
               /\ notification'
                     = "AI failed to generate a valid chord progression."
      ]_vars

\* A progression of 16 entries has replaced the chord steps of the active
\* pattern, its empty strings turned into rests.
C22_Witness ==
    /\ ai.pc = "idle"
    /\ ai.answer.type = "array"
    /\ Len(ai.answer.value) = 16
    /\ layout.patterns[activePatternSlot].sequencerState.chords
          = [i \in 1..16 |-> IF i % 4 = 1 THEN "Am7" ELSE Rest]
    /\ notification = "AI chord progression generated!"

(***************************************************************************)
(* C23.  Every failed generation (the helper returns null or nothing       *)
(* usable) for timbre, effects, chords and drum sounds ends with the user  *)
(* notified of the failure and with the layout and the live parameters     *)
(* unchanged; the playback state is not affected.                          *)
(***************************************************************************)
FailureMessages(kind) ==
    CASE kind = "timbre"  -> {"Error: Failed to update AI timbre."}
      [] kind = "effects" -> {"AI failed to generate effects.",
                              "Error applying AI effects."}
      [] kind = "chords"  -> {"AI failed to generate a valid chord progression.",
                              "Error generating AI chords."}
      [] kind = "drum"    -> {"AI failed to generate the drum sound."}

C23_FailureNotifiesAndKeeps ==
    [][\A kind \in {"timbre", "effects", "chords", "drum"} :
          (AiAnswered(kind) /\ ~Truthy(ai'.answer)) =>
             /\ notification' \in FailureMessages(kind)
             /\ UNCHANGED <<layout, bassSynth, bassEffects, channels>>
             /\ UNCHANGED <<transport, mainLoop, uiLoop, isPlaying>>
      ]_vars

(***************************************************************************)
(* C24.  The rendering busy-state is true from the start of an export      *)
(* until the render settles and false afterwards, on the success and on    *)
(* the failure path; a file is offered for download exactly when the       *)
(* render has resolved, and on a render error the user is notified and no  *)
(* file is offered.                                                        *)
(***************************************************************************)
C24_ExportBusyAndDownload ==
    [][/\ isRendering' <=> (render'.pc = "loading")
       /\ exported'.files = exported.files
             + (IF render.pc = "loading" /\ render'.pc = "done" THEN 1 ELSE 0)
       /\ (render.pc = "loading" /\ render'.pc = "failed")
             => notification' = "Export failed."
      ]_vars

\* An export has failed after an earlier one had offered its file.
C24_Witness ==
    /\ render.pc = "failed"
    /\ render.runs = 2
    /\ ~isRendering
    /\ exported.files = 1
    /\ notification = "Export failed."

(***************************************************************************)
(* C25.  In every state reached from a valid layout by clicks on bars,     *)
(* clearing bars, drops of any payload on a bar and switches of the active *)
(* pattern, patterns is non-empty and every non-empty arrangement entry is *)
(* a valid index into patterns.                                            *)
(***************************************************************************)
C25_ArrangementEntriesValid ==
    /\ Len(layout.patterns) > 0
    /\ \A barIndex \in 0..(ArrLen(layout) - 1) :
          BarEntry(layout, barIndex) # Null
             => BarEntry(layout, barIndex) \in 0..(Len(layout.patterns) - 1)

(***************************************************************************)
(* C26.  In every state reached from a loaded layout, with the tracks its  *)
(* patterns lacked filled in, by toggling drum steps, cycling bass notes,  *)
(* clearing chord steps and applying AI chords, every track of every       *)
(* pattern has exactly 16 steps.                                           *)
(***************************************************************************)
C26_StepsAlwaysSixteen ==
    \A i \in DOMAIN layout.patterns :
        /\ DOMAIN layout.patterns[i].sequencerState = Tracks
        /\ \A track \in Tracks :
              Len(layout.patterns[i].sequencerState[track]) = NumSteps

\* A layout of an older version, its chords tracks filled in by the loader,
\* after step edits and an AI chord progression in its first pattern.
C26_Witness ==
    /\ storage.read =
          JsonText(OldLayout(<<OldPattern(Pattern1), OldPattern(Pattern2)>>))
    /\ edits = MaxStepEdits
    /\ notification = "AI chord progression generated!"
    /\ layout.patterns[1].sequencerState.chords =
          generateChordsFromPrompt(JsArray(AiChords(NumSteps))).value
    /\ layout.patterns[2].sequencerState.chords = emptyChordsTrack

(***************************************************************************)
(* C27.  When the stored item is unparseable, has no pattern list or has   *)
(* an empty pattern list, the loader returns the default layout; the       *)
(* layout it returns always has at least one pattern.  The layout of a     *)
(* page whose component is not yet connected is the one the loader         *)
(* returned for storage.read.                                              *)
(***************************************************************************)
PatternList(item) ==
    IF /\ item.kind = "json"
       /\ item.value.type = "object"
       /\ "patterns" \in DOMAIN item.value.value
       /\ item.value.value.patterns.type = "array"
    THEN item.value.value.patterns.value
    ELSE <<>>

C27_CorruptFallsBack ==
    currentLayout = Null =>
        /\ (storage.read.kind # "none" /\ PatternList(storage.read) = <<>>)
               => layout = buildDefaultLayout
        /\ Len(layout.patterns) >= 1

(***************************************************************************)
(* C28.  For a stored layout with a non-empty list of patterns, every      *)
(* pattern of the layout the loader returns has effectsState, synthState,  *)
(* a sequencerState with a chords track and trackSettings with a chords    *)
(* entry, and the layout has sampleSettings, masterSettings,               *)
(* activePatternIndex and timelineScrollPosition; every field the stored   *)
(* layout had keeps its value.                                             *)
(***************************************************************************)
Kept(object, loaded) ==
    /\ DOMAIN object \subseteq DOMAIN loaded
    /\ \A f \in DOMAIN object : loaded[f] = object[f]

Uint16At(bytes, at) == bytes[at + 1] + 256 * bytes[at + 2]

Uint32At(bytes, at) == Uint16At(bytes, at) + 65536 * Uint16At(bytes, at + 2)

C30_WavHeaderLayout ==
    exported.wav # <<>> =>
        LET frames     == exported.buffer.length
            channelCnt == exported.buffer.numberOfChannels
            sampleRate == exported.buffer.sampleRate
            wav        == exported.wav
        IN  /\ Len(wav) = frames * channelCnt * 2 + 44
            /\ Uint32At(wav, 4) = frames * channelCnt * 2 + 44 - 8
            /\ Uint16At(wav, 22) = channelCnt
            /\ Uint32At(wav, 24) = sampleRate
            /\ Uint16At(wav, 34) = 16
            /\ Uint32At(wav, 40) = frames * channelCnt * 2
            /\ frames > 0 =>
                  Uint16At(wav, 44) =
                     (scaleSample(exported.buffer.channelData[1][1]) + 65536)
                        % 65536

\* Two stereo frames at 48 kHz have been encoded: 52 bytes, 8 of them data,
\* the first sample full scale.
C30_Witness ==
    /\ exported.buffer.length = 2
    /\ exported.buffer.numberOfChannels = 2
    /\ exported.buffer.sampleRate = 48000
    /\ exported.buffer.channelData[1][1] = SampleUnit
    /\ Len(exported.wav) = 52
    /\ Uint32At(exported.wav, 40) = 8
    /\ Uint16At(exported.wav, 44) = 32767

(***************************************************************************)
(* C31.  Every sample of the encoded buffer is clamped to [-1, 1] and then *)
(* written as trunc(s * 32768) when it is negative and as                  *)
(* trunc(s * 32767) when it is not, also for negative values between -0.5  *)
(* and 0; the written value is a signed 16-bit integer.                    *)
(***************************************************************************)
Int16At(bytes, at) ==
    IF Uint16At(bytes, at) >= 32768
    THEN Uint16At(bytes, at) - 65536
    ELSE Uint16At(bytes, at)

Clamped(value) ==
    IF value > SampleUnit THEN SampleUnit
    ELSE IF value < -SampleUnit THEN -SampleUnit
    ELSE value

Quantized(value) ==
    IF Clamped(value) < 0
    THEN -((-(Clamped(value) * 32768)) \div SampleUnit)
    ELSE (Clamped(value) * 32767) \div SampleUnit

C31_SampleQuantization ==
    exported.wav # <<>> =>
        \A i \in 1..exported.buffer.numberOfChannels :
            \A offset \in 1..exported.buffer.length :
                LET written ==
                        Int16At(exported.wav,
                                44 + 2 * ((offset - 1)
                                            * exported.buffer.numberOfChannels
                                          + (i - 1)))
                IN  /\ written = Quantized(exported.buffer.channelData[i][offset])
                    /\ written \in -32768..32767

(***************************************************************************)
(* C32.  A step edit made during playback, with the updateAll that         *)
(* follows it, changes none of the events already scheduled, and every     *)
(* later tick schedules the steps of its pattern as they are in the layout *)
(* at that tick: for every step and track, an event at the time of the     *)
(* step iff the step sounds.                                               *)
(***************************************************************************)
StepEdit ==
    /\ edits' = edits + 1
    /\ \E i \in DOMAIN layout.patterns :
          layout'.patterns[i].sequencerState # layout.patterns[i].sequencerState

C32_EditsKeepScheduledEvents ==
    [][/\ StepEdit =>
             UNCHANGED <<scheduled, bassReleases, drawEvents, drawFired>>
       /\ (TickStep /\ lastTick'.patternIndex # Null) =>
             LET pattern   == PatternAt(layout', lastTick'.patternIndex)
                 sixteenth == 15000 \div transport.bpm
             IN  /\ scheduled \subseteq scheduled'
                 /\ \A i \in 0..(NumSteps - 1) : \A track \in Tracks :
                       StepPresent(pattern, track, i) <=>
                          \E e \in scheduled' \ scheduled :
                             /\ e.inst = track
                             /\ e.time = lastTick'.time + i * sixteenth
      ]_vars

\* The kick of step 0 has been switched off after the tick of the bar: the
\* kick that tick scheduled is still pending.
C32_Witness ==
    /\ edits > 0
    /\ lastTick.patternIndex # Null
    /\ ~StepAt(PatternAt(layout, lastTick.patternIndex), "kick", 0)
    /\ \E e \in scheduled : e.inst = "kick" /\ e.time = lastTick.time
    /\ now = lastTick.time

(***************************************************************************)
(* C36.  When stop() was called while an earlier start() still awaited its *)
(* initialization and no start() was called afterwards, the transport and  *)
(* both loops are stopped once that start() has settled.  With the first   *)
(* start() settled and the page not playing, the last call of the engine   *)
(* was the stop() of the button.                                           *)
(***************************************************************************)
C36_StopWinsOverStart ==
    [][(/\ init.again = "awaitInit"
        /\ init'.again = "idle"
        /\ startPc = "idle"
        /\ ~isPlaying
        /\ init.done > 0)
         => /\ transport'.state = "stopped"
            /\ mainLoop'.state = "stopped"
            /\ uiLoop' = "stopped"
      ]_vars

(***************************************************************************)
(* C33.  For every message (command, data1, data2) the dispatcher emits    *)
(* note-on iff the high nibble of the command is 9 and data2 > 0, note-off *)
(* iff the high nibble is 8, or 9 with data2 = 0, control-change with      *)
(* controller data1 and value data2 iff the high nibble is 11, and nothing *)
(* for any other command; the channel nibble does not matter.              *)
(***************************************************************************)
C33_MidiDecoding ==
    LET command == midi.message[1]
        data1   == midi.message[2]
        data2   == midi.message[3]
        high    == command \div 16
    IN  /\ midi.last.type = "midi-note-on" <=> (high = 9 /\ data2 > 0)
        /\ midi.last.type = "midi-note-off" <=>
              (high = 8 \/ (high = 9 /\ data2 = 0))
        /\ midi.last.type = "midi-control-change" <=> high = 11
        /\ midi.last.type = "none" <=> high \notin {8, 9, 11}
        /\ midi.last.type \in {"midi-note-on", "midi-note-off"} =>
              midi.last.note = data1 /\ midi.last.velocity = data2
        /\ midi.last.type = "midi-control-change" =>
              midi.last.controller = data1 /\ midi.last.value = data2

\* A note-on of velocity 0 on channel 16 has been taken as a note-off.
C33_Witness ==
    /\ midi.message = <<159, 62, 0>>
    /\ midi.last = [type |-> "midi-note-off", note |-> 62, velocity |-> 0]

(***************************************************************************)
(* C37.  A note-on followed by the note-off of the same note leaves no     *)
(* hanging note: once every pending midiNoteOn has settled and no key is   *)
(* held, the bass voice is released, also when the engine was not          *)
(* initialized at the note-on.                                             *)
(***************************************************************************)
C37_NoHangingNote ==
    (midi.pending = <<>> /\ midi.held = {}) => midi.voice.state = "released"

(***************************************************************************)
(* C38.  A note-off of note n releases the bass voice only when n is the   *)
(* note that is sounding: while another note sounds, the voice is left as  *)
(* it is.                                                                  *)
(***************************************************************************)
C38_NoteOffOnlySoundingNote ==
    [][(/\ midi'.last.type = "midi-note-off"
        /\ midi'.pending = midi.pending
        /\ midi' # midi
        /\ midi.voice.state = "attacked"
        /\ midi.voice.note # toNote(midi'.last.note))
         => midi'.voice = midi.voice]_vars

C35_OtherPatternEditKeepsGraph ==
    [][(/\ transport.state = "started"
        /\ lastTick # noTick
        /\ lastTick.patternIndex # Null
        /\ \E i \in DOMAIN layout.patterns :
              /\ i - 1 # lastTick.patternIndex
              /\ \/ layout'.patterns[i].effectsState #
                       layout.patterns[i].effectsState
                 \/ layout'.patterns[i].synthState #
                       layout.patterns[i].synthState)
         => UNCHANGED <<bassEffects, bassSynth>>]_vars

(***************************************************************************)
(* C39.  The busy flag of the AI controls is true whenever at least one AI *)
(* request is in flight, also when two requests overlap; it is false only  *)
(* when the last of them has settled.                                      *)
(***************************************************************************)
C39_BusyWhileAnyRequest ==
    (ai.pc \in {"timbre", "effects", "chords"} \/ ai.overlap # "idle")
        => ai.isAiThinking

(***************************************************************************)
(* C40.  After overlapping sample selections for one drum track have       *)
(* settled, each a loadSample followed on success by recording the source  *)
(* in the layout, the source of the track's live voice equals              *)
(* layout.sampleSettings[track].                                           *)
(***************************************************************************)
C40_OverlappingSelectionsAgree ==
    \A track \in SelectTracks :
        (/\ loads[track].second.n > 0
         /\ loads[track].pc = "none"
         /\ loads[track].second.pc = "none")
            => instruments[track].url = layout.sampleSettings[track]

====
